---- MODULE Spec2Model ----
(***************************************************************************)
(* Passly SDK: the multi-source client (src/src/index.js) and the reduced  *)
(* single-contract client (src/unnamed/part_001).                          *)
(*                                                                         *)
(* The state is one SDK instance (its variant, isConnected and the bound   *)
(* contracts), the identity registry it reads, and the record of the last  *)
(* public operation that was invoked: its arguments, the behaviour of the  *)
(* remote sources during it, its outcome (a returned value or a thrown     *)
(* error) and the remote calls it issued, in order.                        *)
(*                                                                         *)
(* Values are tagged records so that any two of them can be compared:     *)
(* null, numbers, booleans, strings, lists, objects (insertion-ordered     *)
(* key/value entries) and the domain records built by the SDK.             *)
(* Timestamps are kept in whole seconds: the registry returns seconds, a   *)
(* Date is seconds * 1000, and floor((now - date) / 86400000) equals       *)
(* floor((nowSec - sec) / 86400) for every millisecond fraction of now.    *)
(***************************************************************************)
EXTENDS Integers, Sequences, FiniteSets, TLC

VARIABLES variant, config, isConnected, contracts, registry, last

vars == <<variant, config, isConnected, contracts, registry, last>>

----------------------------------------------------------------------------
(* Bounds of the model *)

\* longest platform list a passport of the registry holds
MaxPlatforms == 2
\* most remote calls that fail during one operation
MaxFaults == 2

----------------------------------------------------------------------------
(* JavaScript values *)

Null == [t |-> "null"]
Undefined == [t |-> "undefined"]
Num(n) == [t |-> "num", n |-> n]
Bool(b) == [t |-> "bool", b |-> b]
Str(s) == [t |-> "str", s |-> s]
List(xs) == [t |-> "list", xs |-> xs]
\* a plain object used as a map: its entries <<key, value>> in insertion order
Obj(es) == [t |-> "obj", es |-> es]
ErrorValue(msg) == [t |-> "error", msg |-> msg]

Range(s) == {s[i] : i \in DOMAIN s}

ObjKeys(es) == [i \in DOMAIN es |-> es[i][1]]
ObjKeySet(es) == {es[i][1] : i \in DOMAIN es}
ObjHas(es, key) == key \in ObjKeySet(es)
ObjGet(es, key) == es[CHOOSE i \in DOMAIN es : es[i][1] = key][2]
\* obj[key] = val: an existing key keeps its place, a new key is appended
ObjSet(es, key, val) ==
  IF ObjHas(es, key)
  THEN [i \in DOMAIN es |-> IF es[i][1] = key THEN <<key, val>> ELSE es[i]]
  ELSE Append(es, <<key, val>>)

\* the messages of the errors the SDK and the sources raise
MsgNotConnected == "Passly SDK not connected. Call connect() first."
MsgInvalidHandle == "Invalid address or passport ID"
MsgNoPassportFound == "No passport found for address"
MsgUserHasNoPassport == "User has no passport"
MsgUpstream == "call failed"
MsgInvalidArgument == "invalid address"
MsgTypeError == "TypeError"

\* error.message.includes('User has no passport')
IncludesNoPassport(msg) == msg = MsgUserHasNoPassport

----------------------------------------------------------------------------
(* Outcomes of a (sub)computation: a returned value or a thrown error,     *)
(* with the remote calls issued so far.                                    *)

Ret(v, calls) == [k |-> "ok", v |-> v, calls |-> calls]
Throw(msg, calls) == [k |-> "err", v |-> ErrorValue(msg), calls |-> calls]
IsOk(o) == o.k = "ok"
IsErr(o) == o.k = "err"

\* a remote call: the source, the method, its numeric and string arguments, and
\* (in the log of an operation) whether it answered
Call(src, m, id, s) == [src |-> src, m |-> m, id |-> id, s |-> s, s2 |-> "", ok |-> TRUE]
Call2(src, m, s, s2) == [src |-> src, m |-> m, id |-> 0, s |-> s, s2 |-> s2, ok |-> TRUE]
Logged(c, ok) == [c EXCEPT !.ok = ok]

----------------------------------------------------------------------------
(* The handles a caller can pass *)

Addresses == {"0xA", "0xB"}
AddrH(a) == [t |-> "addr", a |-> a]
NumH(n) == [t |-> "number", n |-> n]
\* a number with a fractional part: n + 0.5
FracH(n) == [t |-> "number", n |-> n, half |-> TRUE]
DigitsH(n) == [t |-> "digits", n |-> n]
BadH == [t |-> "malformed"]

Handles == {AddrH(a) : a \in Addresses} \cup {NumH(1), NumH(2), FracH(1), DigitsH(1), BadH}

\* typeof h === 'number' || (typeof h === 'string' && /^\d+$/.test(h))
IsNumeric(h) == h.t \in {"number", "digits"}
\* typeof h === 'string' && ethers.utils.isAddress(h)
IsAddress(h) == h.t = "addr"
\* parseInt(h): the digits read as a decimal number; of a number, its integer part
ParseInt(h) == h.n

\* !value
Falsy(v) ==
  \/ v.t \in {"null", "undefined"}
  \/ v.t = "num" /\ v.n = 0
  \/ v.t = "bool" /\ ~v.b
  \/ v.t = "str" /\ v.s = ""

----------------------------------------------------------------------------
(* The remote sources.  The identity registry holds the passports; every   *)
(* remote call either answers or fails, as the environment of the          *)
(* operation (env) decides: env.failAt holds the positions, in the order   *)
(* the operation issues its calls, of the calls that fail (network or      *)
(* ledger error); env.absent is how the registry answers the reverse       *)
(* lookup of an owner without passport ("revert": the call fails with      *)
(* 'User has no passport'; "zero": it returns identifier 0).               *)

Platforms == {"twitter", "github", "solana"}
Categories == {"creator", "developer"}
Ids == {1, 2}

\* duplicate-free platform lists of at most n names
PlatformLists(n) ==
  {s \in UNION {[1..k -> Platforms] : k \in 0..n} :
     \A i, j \in DOMAIN s : i # j => s[i] # s[j]}

IdentifierOn(p) ==
  CASE p = "twitter" -> "@alice" [] p = "github" -> "alice-dev" [] OTHER -> "alice.sol"
ProofHashOf(p) ==
  CASE p = "twitter" -> "0xh1" [] p = "github" -> "0xh2" [] OTHER -> "0xh3"
VerifiedAtOf(p) ==
  CASE p = "twitter" -> 100 [] p = "github" -> 200 [] OTHER -> 300

NoPassport ==
  [exists |-> FALSE, owner |-> "", createdAt |-> 0, category |-> "",
   verificationCount |-> 0, totalPoints |-> 0, referralCode |-> "",
   totalReferrals |-> 0, platforms |-> <<>>, active |-> {}]

PassportOf(owner, plats, act) ==
  [exists |-> TRUE, owner |-> owner, createdAt |-> 50, category |-> "creator",
   verificationCount |-> Cardinality(act), totalPoints |-> 250,
   referralCode |-> "REF1", totalReferrals |-> 3, platforms |-> plats, active |-> act]

\* the registries of the model: "0xA" owns passport 1 or nothing, "0xB" owns nothing
Registries ==
  {[passportOf |-> [a \in Addresses |-> 0], passports |-> [i \in Ids |-> NoPassport]]}
  \cup
  {[passportOf |-> [a \in Addresses |-> IF a = "0xA" THEN 1 ELSE 0],
    passports |-> [i \in Ids |-> IF i = 1 THEN PassportOf("0xA", pl, act) ELSE NoPassport]] :
     <<pl, act>> \in {<<l, a>> \in PlatformLists(MaxPlatforms) \X SUBSET Platforms :
                        a \subseteq Range(l)}}

PassportExists(reg, id) == id \in DOMAIN reg.passports /\ reg.passports[id].exists

SupportedPlatformList == <<"twitter", "github", "solana">>

Answer(v, c) == [ok |-> TRUE, v |-> v]
Failure(msg, c) == [ok |-> FALSE, msg |-> msg]

\* what the identity registry answers to a call that reaches it
PasslyAnswer(reg, env, c) ==
  CASE c.m = "getPassportByAddress" ->
         IF reg.passportOf[c.s] = 0
         THEN IF env.absent = "revert" THEN Failure(MsgUserHasNoPassport, c)
                                       ELSE Answer(0, c)
         ELSE Answer(reg.passportOf[c.s], c)
    [] c.m = "getPassportData" ->
         IF PassportExists(reg, c.id) THEN Answer(reg.passports[c.id], c)
                                      ELSE Failure(MsgUpstream, c)
    [] c.m = "getVerifiedPlatforms" ->
         IF PassportExists(reg, c.id) THEN Answer(reg.passports[c.id].platforms, c)
                                      ELSE Failure(MsgUpstream, c)
    [] c.m = "getVerification" ->
         IF PassportExists(reg, c.id) /\ c.s \in Range(reg.passports[c.id].platforms)
         THEN Answer([identifier |-> IdentifierOn(c.s), verifiedAt |-> VerifiedAtOf(c.s),
                      proofHash |-> ProofHashOf(c.s),
                      active |-> c.s \in reg.passports[c.id].active,
                      pointsAwarded |-> c.s \in reg.passports[c.id].active], c)
         ELSE Answer([identifier |-> "", verifiedAt |-> 0, proofHash |-> "0x0",
                      active |-> FALSE, pointsAwarded |-> FALSE], c)
    [] c.m = "isIdentifierVerified" ->
         LET hit == PassportExists(reg, 1) /\ c.s \in reg.passports[1].active
                      /\ c.s2 = IdentifierOn(c.s)
         IN Answer([isVerified |-> hit, passportId |-> IF hit THEN 1 ELSE 0], c)
    [] c.m = "getSupportedCategories" -> Answer(<<"creator", "developer">>, c)
    [] c.m = "getSupportedPlatforms" -> Answer(SupportedPlatformList, c)
    [] OTHER -> Failure(MsgUpstream, c)

\* what the optional sources answer to a call that reaches them
RewardsAnswer(reg, env, c) ==
  LET has == PassportExists(reg, c.id)
      pp == IF has THEN reg.passports[c.id] ELSE NoPassport
  IN CASE c.m = "getPoints" -> Answer(pp.totalPoints, c)
       [] c.m = "getPointBreakdown" ->
            Answer([holding |-> 0, platform |-> pp.totalPoints, referral |-> 0,
                    total |-> pp.totalPoints], c)
       [] c.m = "getPlatformPoints" ->
            Answer(IF c.s \in pp.active THEN 10 ELSE 0, c)
       [] c.m = "getReferralInfo" ->
            Answer([referralCode |-> pp.referralCode, referredBy |-> "0xB",
                    totalReferrals |-> pp.totalReferrals, referralEarnings |-> 30], c)
       [] c.m = "validateReferralCode" ->
            Answer([isValid |-> c.s = "REF1" /\ PassportExists(reg, 1),
                    ownerPassportId |-> IF c.s = "REF1" /\ PassportExists(reg, 1)
                                        THEN 1 ELSE 0], c)
       [] c.m = "getPointConfig" ->
            Answer([dailyHolding |-> 1, referral |-> 10, referee |-> 5], c)
       [] OTHER -> Failure(MsgUpstream, c)

\* the leaderboard's entry of a passport; rank 0 means "not ranked"
LeaderboardEntry(reg, id, category) ==
  LET has == PassportExists(reg, id)
      pp == IF has THEN reg.passports[id] ELSE NoPassport
      ranked == has /\ (category = "global" \/ category = pp.category)
  IN [passportId |-> id, owner |-> pp.owner, totalScore |-> pp.totalPoints,
      holdingPoints |-> 0, platformPoints |-> pp.totalPoints, referralPoints |-> 0,
      verificationCount |-> Cardinality(pp.active), category |-> pp.category,
      lastUpdated |-> 400, rank |-> IF ranked THEN 1 ELSE 0,
      previousRank |-> IF ranked THEN 2 ELSE 0]

LeaderboardAnswer(reg, env, c) ==
  CASE c.m = "getTopEntries" ->
         Answer([i \in 1..(IF PassportExists(reg, 1) /\ c.id > 0 THEN 1 ELSE 0) |->
                   LeaderboardEntry(reg, 1, "global")], c)
    [] c.m = "getTopEntriesByCategory" ->
         Answer([i \in 1..(IF PassportExists(reg, 1) /\ c.id > 0
                              /\ c.s \in {"global", reg.passports[1].category}
                           THEN 1 ELSE 0) |-> LeaderboardEntry(reg, 1, c.s)], c)
    [] c.m = "getPassportEntry" -> Answer(LeaderboardEntry(reg, c.id, "global"), c)
    [] c.m = "getPassportEntryByCategory" -> Answer(LeaderboardEntry(reg, c.id, c.s), c)
    [] c.m = "getPassportRank" -> Answer(LeaderboardEntry(reg, c.id, "global").rank, c)
    [] c.m = "getPassportRankByCategory" -> Answer(LeaderboardEntry(reg, c.id, c.s).rank, c)
    [] c.m = "getPassportScore" -> Answer(LeaderboardEntry(reg, c.id, "global").totalScore, c)
    [] c.m = "isPassportInLeaderboard" -> Answer(PassportExists(reg, c.id), c)
    [] c.m = "getLeaderboardStats" ->
         Answer([totalEntries |-> IF PassportExists(reg, 1) THEN 1 ELSE 0,
                 isActive |-> TRUE, maxEntries |-> 100], c)
    [] c.m = "getSupportedCategories" -> Answer(<<"global", "creator", "developer">>, c)
    [] OTHER -> Failure(MsgUpstream, c)

ArchivesAnswer(reg, env, c) ==
  LET has == PassportExists(reg, c.id) /\ c.s \in Range(reg.passports[c.id].platforms)
      revoked == has /\ c.s \notin reg.passports[c.id].active
  IN CASE c.m = "getVerificationHistory" ->
            Answer(IF has
                   THEN <<[identifier |-> IdentifierOn(c.s), verifiedAt |-> VerifiedAtOf(c.s),
                           revokedAt |-> IF revoked THEN 350 ELSE 0,
                           proofHash |-> ProofHashOf(c.s), wasRevoked |-> revoked,
                           revokeReason |-> IF revoked THEN "revoked" ELSE ""]>>
                   ELSE <<>>, c)
       [] c.m = "getPlatformHistory" ->
            Answer([totalVerifications |-> IF has THEN 1 ELSE 0,
                    totalRevocations |-> IF revoked THEN 1 ELSE 0,
                    historicalIdentifiers |-> IF has THEN <<IdentifierOn(c.s)>> ELSE <<>>,
                    firstVerificationAt |-> IF has THEN VerifiedAtOf(c.s) ELSE 0,
                    lastRevocationAt |-> IF revoked THEN 350 ELSE 0], c)
       [] OTHER -> Failure(MsgUpstream, c)

PlatformTypeOf(p) ==
  CASE p = "twitter" -> "social" [] p = "github" -> "developer" [] OTHER -> "chain"

PlatformsAnswer(reg, env, c) ==
  CASE c.m = "getPlatformConfig" ->
         Answer([isSupported |-> c.s \in Range(SupportedPlatformList),
                 platformType |-> IF c.s \in Range(SupportedPlatformList)
                                  THEN PlatformTypeOf(c.s) ELSE "",
                 requiredPlatforms |-> <<>>,
                 pointReward |-> IF c.s \in Range(SupportedPlatformList) THEN 10 ELSE 0,
                 enablePointPunishment |-> FALSE, punishmentPeriodDays |-> 0], c)
    [] c.m = "getSupportedPlatforms" -> Answer(SupportedPlatformList, c)
    [] c.m = "isPlatformSupported" -> Answer(c.s \in Range(SupportedPlatformList), c)
    [] OTHER -> Failure(MsgUpstream, c)

\* LET r == v IN Op(r), with v evaluated once
With(v, Op(_)) == Op(v)

SourceAnswer(reg, env, c) ==
  CASE c.src = "passly" -> PasslyAnswer(reg, env, c)
    [] c.src = "rewards" -> RewardsAnswer(reg, env, c)
    [] c.src = "leaderboard" -> LeaderboardAnswer(reg, env, c)
    [] c.src = "archives" -> ArchivesAnswer(reg, env, c)
    [] c.src = "platforms" -> PlatformsAnswer(reg, env, c)
    [] OTHER -> Failure(MsgTypeError, c)

\* this.contracts.<src>.<m>(...) after the calls pre: a member of an unbound
\* contract cannot be read (a TypeError, no call leaves); a bound one is called
\* and answers or fails
RemoteCall(reg, env, pre, c) ==
  IF c.src \notin contracts THEN [ok |-> FALSE, msg |-> MsgTypeError, calls |-> pre]
  ELSE IF Len(pre) + 1 \in env.failAt
  THEN [ok |-> FALSE, msg |-> MsgUpstream, calls |-> Append(pre, Logged(c, FALSE))]
  ELSE With(SourceAnswer(reg, env, c), LAMBDA a :
         IF a.ok THEN [ok |-> TRUE, v |-> a.v, calls |-> Append(pre, Logged(c, TRUE))]
         ELSE [ok |-> FALSE, msg |-> a.msg, calls |-> Append(pre, Logged(c, FALSE))])

\* a call whose first argument is an address: ethers rejects anything that is
\* not an address before the call leaves
AddressCall(reg, env, pre, src, m, h) ==
  IF src \notin contracts THEN [ok |-> FALSE, msg |-> MsgTypeError, calls |-> pre]
  ELSE IF ~IsAddress(h) THEN [ok |-> FALSE, msg |-> MsgInvalidArgument, calls |-> pre]
  ELSE RemoteCall(reg, env, pre, Call(src, m, 0, h.a))

----------------------------------------------------------------------------
(* The multi-source SDK (src/src/index.js).  Every operation is an         *)
(* operator from the registry, the environment and the arguments to an     *)
(* outcome; the session (isConnected, contracts) is read from the state.   *)

OptionalSources == {"platforms", "archives", "rewards", "leaderboard"}

\* "Twitter".toLowerCase()
ToLowerCase(str) ==
  CASE str = "Twitter" -> "twitter" [] str = "GitHub" -> "github"
    [] str = "Creator" -> "creator" [] OTHER -> str

\* new Date(seconds * 1000), kept in seconds
DateOf(seconds) == [t |-> "date", sec |-> seconds]

\* a gate that lets every caller through
AlwaysConnected(pre) == Ret(Undefined, pre)

_ensureConnected(pre) ==
  IF ~isConnected THEN Throw(MsgNotConnected, pre) ELSE Ret(Undefined, pre)

getPassportId(reg, env, pre, address) ==
  With(_ensureConnected(pre), LAMBDA gate :
    IF IsErr(gate) THEN gate
    ELSE With(AddressCall(reg, env, pre, "passly", "getPassportByAddress", address),
           LAMBDA r :
      IF r.ok THEN Ret(Num(r.v), r.calls)
      ELSE IF IncludesNoPassport(r.msg) THEN Ret(Null, r.calls)
      ELSE Throw(r.msg, r.calls)))

\* a resolution that takes only numbers as identifiers and looks every string up
ResolveStringsByLookup(reg, env, pre, addressOrPassportId) ==
  IF addressOrPassportId.t = "number"
  THEN Ret(Num(ParseInt(addressOrPassportId)), pre)
  ELSE IF addressOrPassportId.t \in {"addr", "digits"}
  THEN With(getPassportId(reg, env, pre, addressOrPassportId), LAMBDA r :
         IF IsErr(r) THEN r
         ELSE IF Falsy(r.v) THEN Throw(MsgNoPassportFound, r.calls)
         ELSE r)
  ELSE Throw(MsgInvalidHandle, pre)

_resolvePassportId(reg, env, pre, addressOrPassportId) ==
  IF IsNumeric(addressOrPassportId) THEN Ret(Num(ParseInt(addressOrPassportId)), pre)
  ELSE IF IsAddress(addressOrPassportId)
  THEN With(getPassportId(reg, env, pre, addressOrPassportId), LAMBDA r :
         IF IsErr(r) THEN r
         ELSE IF Falsy(r.v) THEN Throw(MsgNoPassportFound, r.calls)
         ELSE r)
  ELSE Throw(MsgInvalidHandle, pre)

_formatLeaderboardEntry(entry) ==
  [t |-> "entry", passportId |-> entry.passportId, owner |-> entry.owner,
   totalScore |-> entry.totalScore, holdingPoints |-> entry.holdingPoints,
   platformPoints |-> entry.platformPoints, referralPoints |-> entry.referralPoints,
   verificationCount |-> entry.verificationCount, category |-> entry.category,
   lastUpdated |-> DateOf(entry.lastUpdated), rank |-> entry.rank,
   previousRank |-> entry.previousRank]

hasPassport(reg, env, pre, address) ==
  With(getPassportId(reg, env, pre, address), LAMBDA r :
    IF IsErr(r) THEN r ELSE Ret(Bool(r.v # Null), r.calls))

VerificationValue(raw) ==
  [t |-> "verification", identifier |-> raw.identifier,
   verifiedAt |-> DateOf(raw.verifiedAt), proofHash |-> raw.proofHash,
   active |-> raw.active, pointsAwarded |-> raw.pointsAwarded]

\* a loop that keeps a platform whose verification failed to load, without detail
RECURSIVE LoadVerificationsKeepFailed(_, _, _, _, _, _)
LoadVerificationsKeepFailed(reg, env, passportId, platforms, i, acc) ==
  IF i > Len(platforms) THEN acc
  ELSE With(RemoteCall(reg, env, acc.calls,
                       Call("passly", "getVerification", passportId, platforms[i])),
         LAMBDA r :
           LoadVerificationsKeepFailed(reg, env, passportId, platforms, i + 1,
             [es |-> ObjSet(acc.es, platforms[i],
                            IF r.ok THEN VerificationValue(r.v) ELSE Null),
              calls |-> r.calls]))

\* a loop that visits the platform list from its end
RECURSIVE LoadVerificationsBackwards(_, _, _, _, _, _)
LoadVerificationsBackwards(reg, env, passportId, platforms, i, acc) ==
  IF i > Len(platforms) THEN acc
  ELSE With(RemoteCall(reg, env, acc.calls,
                       Call("passly", "getVerification", passportId,
                            platforms[Len(platforms) + 1 - i])),
         LAMBDA r :
           LoadVerificationsBackwards(reg, env, passportId, platforms, i + 1,
             [es |-> IF r.ok THEN ObjSet(acc.es, platforms[Len(platforms) + 1 - i],
                                         VerificationValue(r.v))
                             ELSE acc.es,
              calls |-> r.calls]))

\* the loop over the platform list: a verification that fails to load is skipped
RECURSIVE LoadVerifications(_, _, _, _, _, _)
LoadVerifications(reg, env, passportId, platforms, i, acc) ==
  IF i > Len(platforms) THEN acc
  ELSE With(RemoteCall(reg, env, acc.calls,
                       Call("passly", "getVerification", passportId, platforms[i])),
         LAMBDA r :
           LoadVerifications(reg, env, passportId, platforms, i + 1,
             [es |-> IF r.ok THEN ObjSet(acc.es, platforms[i], VerificationValue(r.v))
                             ELSE acc.es,
              calls |-> r.calls]))

getPassport(reg, env, pre, address) ==
  With(_ensureConnected(pre), LAMBDA gate :
  IF IsErr(gate) THEN gate
  ELSE With(getPassportId(reg, env, pre, address), LAMBDA idr :
  IF IsErr(idr) THEN Ret(Null, idr.calls)
  ELSE IF Falsy(idr.v) THEN Ret(Null, idr.calls)
  ELSE With(RemoteCall(reg, env, idr.calls, Call("passly", "getPassportData", idr.v.n, "")),
         LAMBDA d :
  IF ~d.ok THEN Throw(d.msg, d.calls)
  ELSE With(RemoteCall(reg, env, d.calls, Call("passly", "getVerifiedPlatforms", idr.v.n, "")),
         LAMBDA pl :
  IF ~pl.ok THEN Throw(pl.msg, pl.calls)
  ELSE With(LoadVerifications(reg, env, idr.v.n, pl.v, 1, [es |-> <<>>, calls |-> pl.calls]),
         LAMBDA vs :
    Ret([t |-> "passport", id |-> idr.v.n, owner |-> d.v.owner,
         createdAt |-> DateOf(d.v.createdAt),
         verificationCount |-> d.v.verificationCount, category |-> d.v.category,
         totalPoints |-> d.v.totalPoints, referralCode |-> d.v.referralCode,
         totalReferrals |-> d.v.totalReferrals, platforms |-> pl.v,
         verifications |-> vs.es],
        vs.calls))))))

getVerifications(reg, env, pre, addressOrPassportId) ==
  With(_ensureConnected(pre), LAMBDA gate :
  IF IsErr(gate) THEN gate
  ELSE With(_resolvePassportId(reg, env, pre, addressOrPassportId), LAMBDA idr :
  IF IsErr(idr) THEN idr
  ELSE With(RemoteCall(reg, env, idr.calls,
                       Call("passly", "getVerifiedPlatforms", idr.v.n, "")),
         LAMBDA pl :
  IF ~pl.ok THEN Throw(pl.msg, pl.calls)
  ELSE With(LoadVerifications(reg, env, idr.v.n, pl.v, 1, [es |-> <<>>, calls |-> pl.calls]),
         LAMBDA vs : Ret(Obj(vs.es), vs.calls)))))

isAccountVerified(reg, env, pre, platform, identifier) ==
  With(_ensureConnected(pre), LAMBDA gate :
  IF IsErr(gate) THEN gate
  ELSE With(RemoteCall(reg, env, pre,
                       Call2("passly", "isIdentifierVerified", platform, identifier)),
         LAMBDA r :
    IF ~r.ok THEN Throw(r.msg, r.calls)
    ELSE Ret([t |-> "account", isVerified |-> r.v.isVerified,
              passportId |-> IF r.v.isVerified THEN Num(r.v.passportId) ELSE Null],
             r.calls)))

getPlatformIdentifier(reg, env, pre, address, platform) ==
  With(_ensureConnected(pre), LAMBDA gate :
  IF IsErr(gate) THEN gate
  ELSE With(getPassportId(reg, env, pre, address), LAMBDA idr :
  IF IsErr(idr) THEN Ret(Null, idr.calls)
  ELSE IF Falsy(idr.v) THEN Ret(Null, idr.calls)
  ELSE With(RemoteCall(reg, env, idr.calls,
              Call("passly", "getVerification", idr.v.n, ToLowerCase(platform))),
         LAMBDA r :
    IF ~r.ok THEN Ret(Null, r.calls)
    ELSE Ret(IF r.v.active THEN Str(r.v.identifier) ELSE Null, r.calls))))

\* the answer of a source, before the reader formats it
Raw(v, calls) == [k |-> "raw", v |-> v, calls |-> calls]
IsRaw(o) == o.k = "raw"

\* try { id = await _resolvePassportId(h); raw = await src.m(id, s) }
\* catch { return absent }
TryRead(reg, env, pre, src, m, h, s, absent) ==
  With(_resolvePassportId(reg, env, pre, h), LAMBDA idr :
    IF IsErr(idr) THEN Ret(absent, idr.calls)
    ELSE With(RemoteCall(reg, env, idr.calls, Call(src, m, idr.v.n, s)), LAMBDA r :
      IF ~r.ok THEN Ret(absent, r.calls) ELSE Raw(r.v, r.calls)))

\* the readers keyed by a handle: the gate, the binding check, then TryRead
ReadByHandle(reg, env, pre, src, m, h, s, absent) ==
  With(_ensureConnected(pre), LAMBDA gate :
    IF IsErr(gate) THEN gate
    ELSE IF src \notin contracts THEN Ret(absent, pre)
    ELSE TryRead(reg, env, pre, src, m, h, s, absent))

\* the readers without handle: the gate, the binding check, then
\* try { raw = await src.m(id, s) } catch { return failed }
ReadSource(reg, env, pre, src, m, id, s, absent, failed) ==
  With(_ensureConnected(pre), LAMBDA gate :
    IF IsErr(gate) THEN gate
    ELSE IF src \notin contracts THEN Ret(absent, pre)
    ELSE With(RemoteCall(reg, env, pre, Call(src, m, id, s)), LAMBDA r :
      IF ~r.ok THEN Ret(failed, r.calls) ELSE Raw(r.v, r.calls)))

\* a reader of the rewards source without fallback to the identity
getPointsNoFallback(reg, env, pre, addressOrPassportId) ==
  With(ReadByHandle(reg, env, pre, "rewards", "getPoints", addressOrPassportId, "", Null),
    LAMBDA rd :
      IF ~IsRaw(rd) THEN rd
      ELSE With(rd.v, LAMBDA points :
             Ret(Num(points),
                 rd.calls)))

getPoints(reg, env, pre, addressOrPassportId) ==
  With(_ensureConnected(pre), LAMBDA gate :
    IF IsErr(gate) THEN gate
    ELSE IF "rewards" \notin contracts
    THEN With(getPassport(reg, env, pre, addressOrPassportId), LAMBDA passport :
           IF IsErr(passport) THEN passport
           ELSE Ret(IF ~Falsy(passport.v) THEN Num(passport.v.totalPoints) ELSE Null,
                    passport.calls))
    ELSE With(TryRead(reg, env, pre, "rewards", "getPoints", addressOrPassportId, "", Null),
    LAMBDA rd :
      IF ~IsRaw(rd) THEN rd
      ELSE With(rd.v, LAMBDA points :
             Ret(Num(points),
                 rd.calls))))

\* a reader that does not look at the binding of its source
getPointBreakdownUnchecked(reg, env, pre, addressOrPassportId) ==
  With(_ensureConnected(pre), LAMBDA gate :
    IF IsErr(gate) THEN gate
    ELSE With(TryRead(reg, env, pre, "rewards", "getPointBreakdown", addressOrPassportId,
          "", Null),
    LAMBDA rd :
      IF ~IsRaw(rd) THEN rd
      ELSE With(rd.v, LAMBDA b :
             Ret([t |-> "breakdown", holding |-> b.holding, platform |-> b.platform,
                   referral |-> b.referral, total |-> b.total],
                 rd.calls))))

getPointBreakdown(reg, env, pre, addressOrPassportId) ==
  With(ReadByHandle(reg, env, pre, "rewards", "getPointBreakdown", addressOrPassportId, "",
        Null),
    LAMBDA rd :
      IF ~IsRaw(rd) THEN rd
      ELSE With(rd.v, LAMBDA b :
             Ret([t |-> "breakdown", holding |-> b.holding, platform |-> b.platform,
                   referral |-> b.referral, total |-> b.total],
                 rd.calls)))

getPlatformPoints(reg, env, pre, addressOrPassportId, platform) ==
  With(ReadByHandle(reg, env, pre, "rewards", "getPlatformPoints", addressOrPassportId,
        platform, Null),
    LAMBDA rd :
      IF ~IsRaw(rd) THEN rd
      ELSE With(rd.v, LAMBDA points :
             Ret(Num(points),
                 rd.calls)))

ZeroAddress == "0x0000000000000000000000000000000000000000"

ReferralValue(code, by, total, earnings) ==
  [t |-> "referral", referralCode |-> code, referredBy |-> by,
   totalReferrals |-> total, referralEarnings |-> earnings]

getReferralInfo(reg, env, pre, addressOrPassportId) ==
  With(_ensureConnected(pre), LAMBDA gate :
    IF IsErr(gate) THEN gate
    ELSE IF "rewards" \notin contracts
    THEN With(getPassport(reg, env, pre, addressOrPassportId), LAMBDA passport :
           IF IsErr(passport) THEN passport
           ELSE IF Falsy(passport.v) THEN Ret(Null, passport.calls)
           ELSE Ret(ReferralValue(passport.v.referralCode, ZeroAddress,
                                  passport.v.totalReferrals, 0), passport.calls))
    ELSE With(TryRead(reg, env, pre, "rewards", "getReferralInfo", addressOrPassportId, "",
          Null),
    LAMBDA rd :
      IF ~IsRaw(rd) THEN rd
      ELSE With(rd.v, LAMBDA r :
             Ret(ReferralValue(r.referralCode, r.referredBy, r.totalReferrals,
                   r.referralEarnings),
                 rd.calls))))

validateReferralCode(reg, env, pre, referralCode) ==
  With(ReadSource(reg, env, pre, "rewards", "validateReferralCode", 0, referralCode, Null,
        [t |-> "validation", isValid |-> FALSE, ownerPassportId |-> Null]),
    LAMBDA rd :
      IF ~IsRaw(rd) THEN rd
      ELSE With(rd.v, LAMBDA r :
             Ret([t |-> "validation", isValid |-> r.isValid,
                   ownerPassportId |-> IF r.isValid THEN Num(r.ownerPassportId) ELSE Null],
                 rd.calls)))

\* entries.map(entry => this._formatLeaderboardEntry(entry))
FormatEntries(entries) == List([i \in DOMAIN entries |-> _formatLeaderboardEntry(entries[i])])

StrList(xs) == List([i \in DOMAIN xs |-> Str(xs[i])])

getTopEntries(reg, env, pre, count) ==
  With(ReadSource(reg, env, pre, "leaderboard", "getTopEntries", count, "", Null, Null),
    LAMBDA rd :
      IF ~IsRaw(rd) THEN rd
      ELSE With(rd.v, LAMBDA entries :
             Ret(FormatEntries(entries),
                 rd.calls)))

getPassportLeaderboardEntry(reg, env, pre, addressOrPassportId) ==
  With(ReadByHandle(reg, env, pre, "leaderboard", "getPassportEntry", addressOrPassportId,
        "", Null),
    LAMBDA rd :
      IF ~IsRaw(rd) THEN rd
      ELSE With(rd.v, LAMBDA entry :
             Ret(_formatLeaderboardEntry(entry),
                 rd.calls)))

\* a reader that takes a rank of 0 for a missing value and defaults it to 1
getGlobalRankOrFirst(reg, env, pre, addressOrPassportId) ==
  With(ReadByHandle(reg, env, pre, "leaderboard", "getPassportRank", addressOrPassportId,
        "", Null),
    LAMBDA rd :
      IF ~IsRaw(rd) THEN rd
      ELSE With(rd.v, LAMBDA rank :
             Ret(Num(IF rank = 0 THEN 1 ELSE rank),
                 rd.calls)))

getGlobalRank(reg, env, pre, addressOrPassportId) ==
  With(ReadByHandle(reg, env, pre, "leaderboard", "getPassportRank", addressOrPassportId,
        "", Null),
    LAMBDA rd :
      IF ~IsRaw(rd) THEN rd
      ELSE With(rd.v, LAMBDA rank :
             Ret(Num(rank),
                 rd.calls)))

getLeaderboardScore(reg, env, pre, addressOrPassportId) ==
  With(ReadByHandle(reg, env, pre, "leaderboard", "getPassportScore", addressOrPassportId,
        "", Null),
    LAMBDA rd :
      IF ~IsRaw(rd) THEN rd
      ELSE With(rd.v, LAMBDA score :
             Ret(Num(score),
                 rd.calls)))

isInLeaderboard(reg, env, pre, addressOrPassportId) ==
  With(ReadByHandle(reg, env, pre, "leaderboard", "isPassportInLeaderboard",
        addressOrPassportId, "", Bool(FALSE)),
    LAMBDA rd :
      IF ~IsRaw(rd) THEN rd
      ELSE With(rd.v, LAMBDA b :
             Ret(Bool(b),
                 rd.calls)))

getTopEntriesByCategory(reg, env, pre, category, count) ==
  With(ReadSource(reg, env, pre, "leaderboard", "getTopEntriesByCategory", count, category,
        Null, Null),
    LAMBDA rd :
      IF ~IsRaw(rd) THEN rd
      ELSE With(rd.v, LAMBDA entries :
             Ret(FormatEntries(entries),
                 rd.calls)))

getCategoryRank(reg, env, pre, addressOrPassportId, category) ==
  With(ReadByHandle(reg, env, pre, "leaderboard", "getPassportRankByCategory",
        addressOrPassportId, category, Null),
    LAMBDA rd :
      IF ~IsRaw(rd) THEN rd
      ELSE With(rd.v, LAMBDA rank :
             Ret(Num(rank),
                 rd.calls)))

getCategoryLeaderboardEntry(reg, env, pre, addressOrPassportId, category) ==
  With(ReadByHandle(reg, env, pre, "leaderboard", "getPassportEntryByCategory",
        addressOrPassportId, category, Null),
    LAMBDA rd :
      IF ~IsRaw(rd) THEN rd
      ELSE With(rd.v, LAMBDA entry :
             Ret(_formatLeaderboardEntry(entry),
                 rd.calls)))

getLeaderboardStats(reg, env, pre, category) ==
  With(ReadSource(reg, env, pre, "leaderboard", "getLeaderboardStats", 0, category, Null, Null),
    LAMBDA rd :
      IF ~IsRaw(rd) THEN rd
      ELSE With(rd.v, LAMBDA st :
             Ret([t |-> "stats", category |-> category, totalEntries |-> st.totalEntries,
                   isActive |-> st.isActive, maxEntries |-> st.maxEntries],
                 rd.calls)))

getLeaderboardCategories(reg, env, pre) ==
  With(ReadSource(reg, env, pre, "leaderboard", "getSupportedCategories", 0, "",
        List(<<>>), List(<<>>)),
    LAMBDA rd :
      IF ~IsRaw(rd) THEN rd
      ELSE With(rd.v, LAMBDA cats :
             Ret(StrList(cats),
                 rd.calls)))

\* a promise without handler: the rejection reaches the join
Uncaught(o, fallback) == o

\* promise.catch(() => fallback)
Catch(o, fallback) == IF IsErr(o) THEN Ret(fallback, o.calls) ELSE o

\* a join that gives up the snapshot when one of its sub-fetches has failed
getCompleteLeaderboardDataAllOrNothing(reg, env, pre, addressOrPassportId) ==
  With(_ensureConnected(pre), LAMBDA gate :
  IF IsErr(gate) THEN gate
  ELSE IF "leaderboard" \notin contracts THEN Ret(Null, pre)
  ELSE With(_resolvePassportId(reg, env, pre, addressOrPassportId), LAMBDA idr :
  IF IsErr(idr) THEN Ret(Null, idr.calls)
  ELSE With(getPassport(reg, env, idr.calls, addressOrPassportId), LAMBDA passportData :
  IF IsErr(passportData) THEN Ret(Null, passportData.calls)
  ELSE IF Falsy(passportData.v) THEN Ret(Null, passportData.calls)
  ELSE With(getPassportLeaderboardEntry(reg, env, passportData.calls, NumH(idr.v.n)),
            LAMBDA globalEntry :
       With(getCategoryLeaderboardEntry(reg, env, globalEntry.calls, NumH(idr.v.n),
                                        passportData.v.category),
            LAMBDA categoryEntry :
       With(isInLeaderboard(reg, env, categoryEntry.calls, NumH(idr.v.n)),
            LAMBDA isInBoard :
       With(getLeaderboardCategories(reg, env, isInBoard.calls),
            LAMBDA categories :
         IF \E i \in DOMAIN categories.calls :
              i > Len(passportData.calls) /\ ~categories.calls[i].ok
         THEN Ret(Null, categories.calls)
         ELSE Ret([t |-> "leaderboardData", passportId |-> idr.v.n,
                   category |-> passportData.v.category, isInLeaderboard |-> isInBoard.v,
                   global |-> globalEntry.v, categorySpecific |-> categoryEntry.v,
                   availableCategories |-> categories.v],
                  categories.calls))))))))

\* The four sub-fetches are issued together and awaited jointly; the log keeps
\* the calls of each branch together, in the order the branches are listed.
getCompleteLeaderboardData(reg, env, pre, addressOrPassportId) ==
  With(_ensureConnected(pre), LAMBDA gate :
  IF IsErr(gate) THEN gate
  ELSE IF "leaderboard" \notin contracts THEN Ret(Null, pre)
  ELSE With(_resolvePassportId(reg, env, pre, addressOrPassportId), LAMBDA idr :
  IF IsErr(idr) THEN Ret(Null, idr.calls)
  ELSE With(getPassport(reg, env, idr.calls, addressOrPassportId), LAMBDA passportData :
  IF IsErr(passportData) THEN Ret(Null, passportData.calls)
  ELSE IF Falsy(passportData.v) THEN Ret(Null, passportData.calls)
  ELSE With(Catch(getPassportLeaderboardEntry(reg, env, passportData.calls, NumH(idr.v.n)),
                  Null), LAMBDA globalEntry :
       With(Catch(getCategoryLeaderboardEntry(reg, env, globalEntry.calls, NumH(idr.v.n),
                                              passportData.v.category), Null),
            LAMBDA categoryEntry :
       With(Catch(isInLeaderboard(reg, env, categoryEntry.calls, NumH(idr.v.n)),
                  Bool(FALSE)), LAMBDA isInBoard :
       With(Catch(getLeaderboardCategories(reg, env, isInBoard.calls), List(<<>>)),
            LAMBDA categories :
         Ret([t |-> "leaderboardData", passportId |-> idr.v.n,
              category |-> passportData.v.category, isInLeaderboard |-> isInBoard.v,
              global |-> globalEntry.v, categorySpecific |-> categoryEntry.v,
              availableCategories |-> categories.v],
             categories.calls))))))))

HistoryEntry(entry) ==
  [t |-> "history", identifier |-> entry.identifier, verifiedAt |-> DateOf(entry.verifiedAt),
   revokedAt |-> IF entry.revokedAt > 0 THEN DateOf(entry.revokedAt) ELSE Null,
   proofHash |-> entry.proofHash, wasRevoked |-> entry.wasRevoked,
   revokeReason |-> entry.revokeReason]

getVerificationHistory(reg, env, pre, addressOrPassportId, platform) ==
  With(ReadByHandle(reg, env, pre, "archives", "getVerificationHistory",
        addressOrPassportId, platform, Null),
    LAMBDA rd :
      IF ~IsRaw(rd) THEN rd
      ELSE With(rd.v, LAMBDA history :
             Ret(List([i \in DOMAIN history |-> HistoryEntry(history[i])]),
                 rd.calls)))

getPlatformHistory(reg, env, pre, addressOrPassportId, platform) ==
  With(ReadByHandle(reg, env, pre, "archives", "getPlatformHistory", addressOrPassportId,
        platform, Null),
    LAMBDA rd :
      IF ~IsRaw(rd) THEN rd
      ELSE With(rd.v, LAMBDA history :
             Ret([t |-> "platformHistory",
                   totalVerifications |-> history.totalVerifications,
                   totalRevocations |-> history.totalRevocations,
                   historicalIdentifiers |-> history.historicalIdentifiers,
                   firstVerificationAt |->
                     IF history.firstVerificationAt > 0
                     THEN DateOf(history.firstVerificationAt) ELSE Null,
                   lastRevocationAt |->
                     IF history.lastRevocationAt > 0
                     THEN DateOf(history.lastRevocationAt) ELSE Null],
                 rd.calls)))

getPlatformConfig(reg, env, pre, platform) ==
  With(ReadSource(reg, env, pre, "platforms", "getPlatformConfig", 0, platform, Null, Null),
    LAMBDA rd :
      IF ~IsRaw(rd) THEN rd
      ELSE With(rd.v, LAMBDA c :
             Ret([t |-> "platformConfig", isSupported |-> c.isSupported,
                   platformType |-> c.platformType,
                   requiredPlatforms |-> c.requiredPlatforms,
                   pointReward |-> c.pointReward,
                   enablePointPunishment |-> c.enablePointPunishment,
                   punishmentPeriodDays |-> c.punishmentPeriodDays],
                 rd.calls)))

getSupportedPlatforms(reg, env, pre) ==
  With(_ensureConnected(pre), LAMBDA gate :
    IF IsErr(gate) THEN gate
    ELSE IF "platforms" \in contracts
    THEN With(RemoteCall(reg, env, pre, Call("platforms", "getSupportedPlatforms", 0, "")),
           LAMBDA r : IF ~r.ok THEN Throw(r.msg, r.calls) ELSE Ret(StrList(r.v), r.calls))
    ELSE Ret(List(<<>>), pre))

getSupportedCategories(reg, env, pre) ==
  With(_ensureConnected(pre), LAMBDA gate :
    IF IsErr(gate) THEN gate
    ELSE With(RemoteCall(reg, env, pre, Call("passly", "getSupportedCategories", 0, "")),
           LAMBDA r : IF ~r.ok THEN Throw(r.msg, r.calls) ELSE Ret(StrList(r.v), r.calls)))

isPlatformSupported(reg, env, pre, platform) ==
  With(_ensureConnected(pre), LAMBDA gate :
    IF IsErr(gate) THEN gate
    ELSE IF "platforms" \in contracts
    THEN With(RemoteCall(reg, env, pre, Call("platforms", "isPlatformSupported", 0, platform)),
           LAMBDA r : IF ~r.ok THEN Throw(r.msg, r.calls) ELSE Ret(Bool(r.v), r.calls))
    ELSE Ret(Bool(FALSE), pre))

\* a view that exposes every verification, active or not
RECURSIVE AllIdentifiers(_, _, _)
AllIdentifiers(es, i, acc) ==
  IF i > Len(es) THEN acc
  ELSE AllIdentifiers(es, i + 1, ObjSet(acc, es[i][1], Str(es[i][2].identifier)))

\* for (const platform in verifications) if (verification.active) result[platform] = ...
RECURSIVE ActiveIdentifiers(_, _, _)
ActiveIdentifiers(es, i, acc) ==
  IF i > Len(es) THEN acc
  ELSE ActiveIdentifiers(es, i + 1,
         IF es[i][2].active THEN ObjSet(acc, es[i][1], Str(es[i][2].identifier)) ELSE acc)

getUserVerifications(reg, env, pre, address) ==
  With(getPassport(reg, env, pre, address), LAMBDA passport :
    IF IsErr(passport) THEN passport
    ELSE IF Falsy(passport.v) THEN Ret(Null, passport.calls)
    ELSE Ret(Obj(ActiveIdentifiers(passport.v.verifications, 1, <<>>)), passport.calls))

hasVerifiedPlatform(reg, env, pre, address, platform) ==
  With(getUserVerifications(reg, env, pre, address), LAMBDA verifications :
    IF IsErr(verifications) THEN verifications
    ELSE Ret(Bool(verifications.v # Null
                  /\ ObjHas(verifications.v.es, ToLowerCase(platform))),
             verifications.calls))

\* The three sub-fetches are issued together and awaited jointly; the log keeps
\* the calls of each branch together, in the order the branches are listed.
getUserProfile(reg, env, pre, address) ==
  With(getPassport(reg, env, pre, address), LAMBDA passport :
  IF IsErr(passport) THEN passport
  ELSE IF Falsy(passport.v) THEN Ret(Null, passport.calls)
  ELSE With(Catch(getPointBreakdown(reg, env, passport.calls, address), Null),
         LAMBDA pointBreakdown :
       With(Catch(getReferralInfo(reg, env, pointBreakdown.calls, address), Null),
         LAMBDA referralInfo :
       With(Catch(getCompleteLeaderboardData(reg, env, referralInfo.calls, address), Null),
         LAMBDA leaderboardData :
         Ret([t |-> "profile", passport |-> passport.v, points |-> pointBreakdown.v,
              referrals |-> referralInfo.v, leaderboard |-> leaderboardData.v],
             leaderboardData.calls)))))

Min(a, b) == IF a < b THEN a ELSE b

SecondsPerDay == 86400

\* Math.floor((now - createdAt) / (1000 * 60 * 60 * 24))
AgeInDays(now, createdAt) == (now - createdAt.sec) \div SecondsPerDay

SocialPlatforms == {"twitter", "discord", "telegram", "instagram"}
DevPlatforms == {"github", "gitlab"}
ChainPlatforms == {"solana", "ethereum"}

\* [some(social), some(dev), some(chain)].filter(Boolean).length
TypeCount(activePlatforms) ==
  Cardinality({k \in {SocialPlatforms, DevPlatforms, ChainPlatforms} :
                 \E i \in DOMAIN activePlatforms : activePlatforms[i] \in k})

\* grades by thresholds that must be exceeded
GradeAbove(totalScore) ==
  IF totalScore > 80 THEN "A" ELSE IF totalScore > 60 THEN "B"
  ELSE IF totalScore > 40 THEN "C" ELSE IF totalScore > 20 THEN "D" ELSE "F"

GradeOf(totalScore) ==
  IF totalScore >= 80 THEN "A" ELSE IF totalScore >= 60 THEN "B"
  ELSE IF totalScore >= 40 THEN "C" ELSE IF totalScore >= 20 THEN "D" ELSE "F"

\* a score whose platform component is not capped
StrengthOfUncapped(passport, now) ==
  LET activePlatforms == SelectSeq(passport.platforms,
                           LAMBDA p : ObjGet(passport.verifications, p).active)
      platformCount == Len(activePlatforms) * 15
      ageInDays == AgeInDays(now, passport.createdAt)
      ageBonus == Min(ageInDays \div 30, 10)
      diversityBonus == IF TypeCount(activePlatforms) >= 2 THEN 10 ELSE 0
      pointsBonus == IF passport.totalPoints > 0
                     THEN Min(passport.totalPoints \div 100, 5) ELSE 0
      totalScore == Min(platformCount + ageBonus + diversityBonus + pointsBonus, 100)
  IN [t |-> "strength", score |-> totalScore, grade |-> GradeOf(totalScore),
      breakdown |-> [platformCount |-> platformCount, ageBonus |-> ageBonus,
                     diversityBonus |-> diversityBonus, pointsBonus |-> pointsBonus,
                     totalScore |-> totalScore],
      activePlatforms |-> Len(activePlatforms), accountAge |-> ageInDays]

\* the score of a passport whose platforms all have a verification entry
StrengthOf(passport, now) ==
  LET activePlatforms == SelectSeq(passport.platforms,
                           LAMBDA p : ObjGet(passport.verifications, p).active)
      platformCount == Min(Len(activePlatforms) * 15, 75)
      ageInDays == AgeInDays(now, passport.createdAt)
      ageBonus == Min(ageInDays \div 30, 10)
      diversityBonus == IF TypeCount(activePlatforms) >= 2 THEN 10 ELSE 0
      pointsBonus == IF passport.totalPoints > 0
                     THEN Min(passport.totalPoints \div 100, 5) ELSE 0
      totalScore == Min(platformCount + ageBonus + diversityBonus + pointsBonus, 100)
  IN [t |-> "strength", score |-> totalScore, grade |-> GradeOf(totalScore),
      breakdown |-> [platformCount |-> platformCount, ageBonus |-> ageBonus,
                     diversityBonus |-> diversityBonus, pointsBonus |-> pointsBonus,
                     totalScore |-> totalScore],
      activePlatforms |-> Len(activePlatforms), accountAge |-> ageInDays]

\* passport.verifications[platform].active of a platform without entry reads a
\* member of undefined: a TypeError
getVerificationStrength(reg, env, pre, address) ==
  With(getPassport(reg, env, pre, address), LAMBDA passport :
    IF IsErr(passport) THEN passport
    ELSE IF Falsy(passport.v) THEN Ret(Null, passport.calls)
    ELSE IF \E i \in DOMAIN passport.v.platforms :
              ~ObjHas(passport.v.verifications, passport.v.platforms[i])
    THEN Throw(MsgTypeError, passport.calls)
    ELSE Ret(StrengthOf(passport.v, env.now), passport.calls))

\* config.addresses.<src> || null
AddressOrNull(src) ==
  IF src \in DOMAIN config.addresses /\ config.addresses[src] # ""
  THEN Str(config.addresses[src]) ELSE Null

getSystemConfig(reg, env, pre) ==
  With(_ensureConnected(pre), LAMBDA gate :
  IF IsErr(gate) THEN gate
  ELSE With(Catch(getSupportedPlatforms(reg, env, pre), List(<<>>)),
         LAMBDA supportedPlatforms :
       With(Catch(getSupportedCategories(reg, env, supportedPlatforms.calls), List(<<>>)),
         LAMBDA supportedCategories :
       With(Catch(getLeaderboardCategories(reg, env, supportedCategories.calls), List(<<>>)),
         LAMBDA leaderboardCategories :
       With(IF "rewards" \in contracts
            THEN RemoteCall(reg, env, leaderboardCategories.calls,
                            Call("rewards", "getPointConfig", 0, ""))
            ELSE [ok |-> FALSE, msg |-> "", calls |-> leaderboardCategories.calls],
         LAMBDA pc :
         Ret([t |-> "systemConfig", supportedPlatforms |-> supportedPlatforms.v,
              supportedCategories |-> supportedCategories.v,
              leaderboardCategories |-> leaderboardCategories.v,
              pointConfig |-> IF pc.ok
                              THEN [t |-> "pointConfig", dailyHolding |-> pc.v.dailyHolding,
                                    referral |-> pc.v.referral, referee |-> pc.v.referee]
                              ELSE Null,
              contracts |-> [src \in {"passly"} \cup OptionalSources |-> AddressOrNull(src)]],
             pc.calls))))))

getProofHash(reg, env, pre, address, platform) ==
  With(getPassport(reg, env, pre, address), LAMBDA passport :
    IF IsErr(passport) THEN passport
    ELSE IF Falsy(passport.v) THEN Ret(Null, passport.calls)
    ELSE IF ~ObjHas(passport.v.verifications, ToLowerCase(platform))
    THEN Ret(Null, passport.calls)
    ELSE With(ObjGet(passport.v.verifications, ToLowerCase(platform)), LAMBDA verification :
           Ret(IF ~verification.active THEN Null ELSE Str(verification.proofHash),
               passport.calls)))

\* a loop that keeps the proof hash of every verification that loads
RECURSIVE LoadProofHashesOfAll(_, _, _, _, _, _)
LoadProofHashesOfAll(reg, env, passportId, platforms, i, acc) ==
  IF i > Len(platforms) THEN acc
  ELSE With(RemoteCall(reg, env, acc.calls,
                       Call("passly", "getVerification", passportId, platforms[i])),
         LAMBDA r :
           LoadProofHashesOfAll(reg, env, passportId, platforms, i + 1,
             [es |-> IF r.ok
                     THEN ObjSet(acc.es, platforms[i], Str(r.v.proofHash)) ELSE acc.es,
              calls |-> r.calls]))

\* the loop of getAllProofHashes: only active verifications are kept, a
\* verification that fails to load is skipped
RECURSIVE LoadProofHashes(_, _, _, _, _, _)
LoadProofHashes(reg, env, passportId, platforms, i, acc) ==
  IF i > Len(platforms) THEN acc
  ELSE With(RemoteCall(reg, env, acc.calls,
                       Call("passly", "getVerification", passportId, platforms[i])),
         LAMBDA r :
           LoadProofHashes(reg, env, passportId, platforms, i + 1,
             [es |-> IF r.ok /\ r.v.active
                     THEN ObjSet(acc.es, platforms[i], Str(r.v.proofHash)) ELSE acc.es,
              calls |-> r.calls]))

getAllProofHashes(reg, env, pre, address) ==
  With(_ensureConnected(pre), LAMBDA gate :
  IF IsErr(gate) THEN gate
  ELSE With(getPassportId(reg, env, pre, address), LAMBDA idr :
  IF IsErr(idr) THEN Ret(Null, idr.calls)
  ELSE IF Falsy(idr.v) THEN Ret(Null, idr.calls)
  ELSE With(RemoteCall(reg, env, idr.calls,
                       Call("passly", "getVerifiedPlatforms", idr.v.n, "")), LAMBDA pl :
  IF ~pl.ok THEN Ret(Null, pl.calls)
  ELSE With(LoadProofHashes(reg, env, idr.v.n, pl.v, 1, [es |-> <<>>, calls |-> pl.calls]),
         LAMBDA hs : Ret(IF Len(hs.es) > 0 THEN Obj(hs.es) ELSE Null, hs.calls)))))

----------------------------------------------------------------------------
(* The reduced SDK (src/unnamed/part_001): one contract, the identity      *)
(* registry, bound as "passly" by connect.  Its operators carry the suffix *)
(* _r.                                                                     *)

_ensureConnected_r(pre) ==
  IF ~isConnected THEN Throw(MsgNotConnected, pre) ELSE Ret(Undefined, pre)

getPassportId_r(reg, env, pre, address) ==
  With(_ensureConnected_r(pre), LAMBDA gate :
    IF IsErr(gate) THEN gate
    ELSE With(AddressCall(reg, env, pre, "passly", "getPassportByAddress", address),
           LAMBDA r :
      IF r.ok THEN Ret(Num(r.v), r.calls)
      ELSE IF IncludesNoPassport(r.msg) THEN Ret(Null, r.calls)
      ELSE Throw(r.msg, r.calls)))

hasPassport_r(reg, env, pre, address) ==
  With(getPassportId_r(reg, env, pre, address), LAMBDA r :
    IF IsErr(r) THEN r ELSE Ret(Bool(r.v # Null), r.calls))

VerificationValue_r(raw) ==
  [t |-> "verification", identifier |-> raw.identifier,
   verifiedAt |-> DateOf(raw.verifiedAt), proofHash |-> raw.proofHash,
   active |-> raw.active]

\* the loop over the platform list: a verification that fails to load ends the
\* loop with its error (acc.err)
RECURSIVE LoadVerifications_r(_, _, _, _, _, _)
LoadVerifications_r(reg, env, passportId, platforms, i, acc) ==
  IF i > Len(platforms) THEN acc
  ELSE With(RemoteCall(reg, env, acc.calls,
                       Call("passly", "getVerification", passportId, platforms[i])),
         LAMBDA r :
           IF ~r.ok THEN [es |-> acc.es, calls |-> r.calls, err |-> r.msg]
           ELSE LoadVerifications_r(reg, env, passportId, platforms, i + 1,
                  [es |-> ObjSet(acc.es, platforms[i], VerificationValue_r(r.v)),
                   calls |-> r.calls, err |-> ""]))

getPassport_r(reg, env, pre, address) ==
  With(_ensureConnected_r(pre), LAMBDA gate :
  IF IsErr(gate) THEN gate
  ELSE With(getPassportId_r(reg, env, pre, address), LAMBDA idr :
  IF IsErr(idr) THEN Ret(Null, idr.calls)
  ELSE IF Falsy(idr.v) THEN Ret(Null, idr.calls)
  ELSE With(RemoteCall(reg, env, idr.calls, Call("passly", "getPassportData", idr.v.n, "")),
         LAMBDA d :
  IF ~d.ok THEN Throw(d.msg, d.calls)
  ELSE With(RemoteCall(reg, env, d.calls, Call("passly", "getVerifiedPlatforms", idr.v.n, "")),
         LAMBDA pl :
  IF ~pl.ok THEN Throw(pl.msg, pl.calls)
  ELSE With(LoadVerifications_r(reg, env, idr.v.n, pl.v, 1,
                                [es |-> <<>>, calls |-> pl.calls, err |-> ""]),
         LAMBDA vs :
    IF vs.err # "" THEN Throw(vs.err, vs.calls)
    ELSE Ret([t |-> "passport", id |-> idr.v.n, owner |-> d.v.owner,
              createdAt |-> DateOf(d.v.createdAt),
              verificationCount |-> d.v.verificationCount, category |-> d.v.category,
              platforms |-> pl.v, verifications |-> vs.es],
             vs.calls))))))

getVerifications_r(reg, env, pre, passportId) ==
  With(_ensureConnected_r(pre), LAMBDA gate :
  IF IsErr(gate) THEN gate
  ELSE With(RemoteCall(reg, env, pre, Call("passly", "getVerifiedPlatforms", passportId, "")),
         LAMBDA pl :
  IF ~pl.ok THEN Throw(pl.msg, pl.calls)
  ELSE With(LoadVerifications_r(reg, env, passportId, pl.v, 1,
                                [es |-> <<>>, calls |-> pl.calls, err |-> ""]),
         LAMBDA vs :
    IF vs.err # "" THEN Throw(vs.err, vs.calls) ELSE Ret(Obj(vs.es), vs.calls))))

isAccountVerified_r(reg, env, pre, platform, identifier) ==
  With(_ensureConnected_r(pre), LAMBDA gate :
  IF IsErr(gate) THEN gate
  ELSE With(RemoteCall(reg, env, pre,
                       Call2("passly", "isIdentifierVerified", platform, identifier)),
         LAMBDA r :
    IF ~r.ok THEN Throw(r.msg, r.calls)
    ELSE Ret([t |-> "account", isVerified |-> r.v.isVerified,
              passportId |-> IF r.v.isVerified THEN Num(r.v.passportId) ELSE Null],
             r.calls)))

getSupportedPlatforms_r(reg, env, pre) ==
  With(_ensureConnected_r(pre), LAMBDA gate :
    IF IsErr(gate) THEN gate
    ELSE With(RemoteCall(reg, env, pre, Call("passly", "getSupportedPlatforms", 0, "")),
           LAMBDA r : IF ~r.ok THEN Throw(r.msg, r.calls) ELSE Ret(StrList(r.v), r.calls)))

getSupportedCategories_r(reg, env, pre) ==
  With(_ensureConnected_r(pre), LAMBDA gate :
    IF IsErr(gate) THEN gate
    ELSE With(RemoteCall(reg, env, pre, Call("passly", "getSupportedCategories", 0, "")),
           LAMBDA r : IF ~r.ok THEN Throw(r.msg, r.calls) ELSE Ret(StrList(r.v), r.calls)))

getUserVerifications_r(reg, env, pre, address) ==
  With(getPassport_r(reg, env, pre, address), LAMBDA passport :
    IF IsErr(passport) THEN passport
    ELSE IF Falsy(passport.v) THEN Ret(Null, passport.calls)
    ELSE Ret(Obj(ActiveIdentifiers(passport.v.verifications, 1, <<>>)), passport.calls))

hasVerifiedPlatform_r(reg, env, pre, address, platform) ==
  With(getUserVerifications_r(reg, env, pre, address), LAMBDA verifications :
    IF IsErr(verifications) THEN verifications
    ELSE Ret(Bool(verifications.v # Null
                  /\ ObjHas(verifications.v.es, ToLowerCase(platform))),
             verifications.calls))

\* verifications[platform.toLowerCase()] || null
getPlatformIdentifier_r(reg, env, pre, address, platform) ==
  With(getUserVerifications_r(reg, env, pre, address), LAMBDA verifications :
    IF IsErr(verifications) THEN verifications
    ELSE IF Falsy(verifications.v) THEN Ret(Null, verifications.calls)
    ELSE IF ~ObjHas(verifications.v.es, ToLowerCase(platform))
    THEN Ret(Null, verifications.calls)
    ELSE With(ObjGet(verifications.v.es, ToLowerCase(platform)), LAMBDA identifier :
           Ret(IF Falsy(identifier) THEN Null ELSE identifier, verifications.calls)))

\* `${n} ${unit}${n !== 1 ? 's' : ''}${suffix}`
Plural(n, unit, suffix) == [n |-> n, unit |-> unit, plural |-> n # 1, suffix |-> suffix]

\* ages are kept in whole seconds (ageInSec stands for ageInMs)
getVerificationAge(reg, env, pre, address, platform) ==
  With(getPassport_r(reg, env, pre, address), LAMBDA passport :
    IF IsErr(passport) THEN passport
    ELSE IF Falsy(passport.v) THEN Ret(Null, passport.calls)
    ELSE IF ~ObjHas(passport.v.verifications, ToLowerCase(platform))
    THEN Ret(Null, passport.calls)
    ELSE With(ObjGet(passport.v.verifications, ToLowerCase(platform)), LAMBDA verification :
      IF ~verification.active THEN Ret(Null, passport.calls)
      ELSE With(env.now - verification.verifiedAt.sec, LAMBDA ageInSec :
        Ret([t |-> "age", platform |-> ToLowerCase(platform),
             identifier |-> verification.identifier,
             verifiedAt |-> verification.verifiedAt, ageInSec |-> ageInSec,
             ageInMinutes |-> ageInSec \div 60, ageInHours |-> ageInSec \div 3600,
             ageInDays |-> ageInSec \div SecondsPerDay,
             humanReadable |->
               IF ageInSec \div SecondsPerDay > 0
               THEN Plural(ageInSec \div SecondsPerDay, "day", "")
               ELSE IF ageInSec \div 3600 > 0 THEN Plural(ageInSec \div 3600, "hour", "")
               ELSE Plural(ageInSec \div 60, "minute", "")],
            passport.calls))))

\* the loop of getEarliestVerification: the active verification with the
\* smallest verifiedAt, the first one on ties; Null if there is none
RECURSIVE Earliest(_, _, _)
Earliest(passport, i, earliest) ==
  IF i > Len(passport.platforms) THEN earliest
  ELSE With(ObjGet(passport.verifications, passport.platforms[i]), LAMBDA verification :
         Earliest(passport, i + 1,
           IF verification.active
              /\ (earliest = Null \/ verification.verifiedAt.sec < earliest.verifiedAt.sec)
           THEN [t |-> "earliest", platform |-> passport.platforms[i],
                 identifier |-> verification.identifier,
                 verifiedAt |-> verification.verifiedAt,
                 proofHash |-> verification.proofHash]
           ELSE earliest))

getEarliestVerification(reg, env, pre, address) ==
  With(getPassport_r(reg, env, pre, address), LAMBDA passport :
    IF IsErr(passport) THEN passport
    ELSE IF Falsy(passport.v) THEN Ret(Null, passport.calls)
    ELSE IF Len(passport.v.platforms) = 0 THEN Ret(Null, passport.calls)
    ELSE With(Earliest(passport.v, 1, Null), LAMBDA earliest :
      IF earliest = Null THEN Ret(Null, passport.calls)
      ELSE With(AgeInDays(env.now, earliest.verifiedAt), LAMBDA ageInDays :
        Ret([t |-> "earliestAge", platform |-> earliest.platform,
             identifier |-> earliest.identifier, verifiedAt |-> earliest.verifiedAt,
             proofHash |-> earliest.proofHash, ageInDays |-> ageInDays,
             humanReadable |-> Plural(ageInDays, "day", " ago")],
            passport.calls))))

\* Math.floor(ageInDays / 24.33)
AgeUnits_r(ageInDays) == (ageInDays * 100) \div 2433

\* the score from the passport and the (separately fetched) earliest verification
StrengthOf_r(passport, earliest) ==
  LET activePlatforms == SelectSeq(passport.platforms,
                           LAMBDA p : ObjGet(passport.verifications, p).active)
      platformCount == Min(Len(activePlatforms) * 20, 80)
      ageBonus == IF Falsy(earliest) THEN 0 ELSE Min(AgeUnits_r(earliest.ageInDays), 15)
      hasSocial == \E i \in DOMAIN activePlatforms : activePlatforms[i] \in SocialPlatforms
      hasDev == \E i \in DOMAIN activePlatforms : activePlatforms[i] \in DevPlatforms
      diversityBonus == IF hasSocial /\ hasDev THEN 5 ELSE 0
      totalScore == Min(platformCount + ageBonus + diversityBonus, 100)
  IN [t |-> "strength", score |-> totalScore, grade |-> GradeOf(totalScore),
      breakdown |-> [platformCount |-> platformCount, ageBonus |-> ageBonus,
                     diversityBonus |-> diversityBonus, totalScore |-> totalScore],
      activePlatforms |-> Len(activePlatforms),
      accountAge |-> IF Falsy(earliest) THEN 0 ELSE earliest.ageInDays]

\* getVerificationStrength of the reduced SDK when the registry is reg at its
\* first read of the passport and reg2 at the read inside
\* getEarliestVerification
getVerificationStrengthAcross(reg, reg2, env, pre, address) ==
  With(getPassport_r(reg, env, pre, address), LAMBDA passport :
    IF IsErr(passport) THEN passport
    ELSE IF Falsy(passport.v) THEN Ret(Null, passport.calls)
    ELSE With(getEarliestVerification(reg2, env, passport.calls, address), LAMBDA earliest :
      IF IsErr(earliest) THEN earliest
      ELSE Ret(StrengthOf_r(passport.v, earliest.v), earliest.calls)))

getVerificationStrength_r(reg, env, pre, address) ==
  With(getPassport_r(reg, env, pre, address), LAMBDA passport :
    IF IsErr(passport) THEN passport
    ELSE IF Falsy(passport.v) THEN Ret(Null, passport.calls)
    ELSE With(getEarliestVerification(reg, env, passport.calls, address), LAMBDA earliest :
      IF IsErr(earliest) THEN earliest
      ELSE Ret(StrengthOf_r(passport.v, earliest.v), earliest.calls)))

\* a scan that stops only at the attempt bound
RECURSIVE ScanWholeWindow(_, _, _, _, _)
ScanWholeWindow(reg, env, normalizedCategory, limit, st) ==
  IF ~(st.attempts < limit * 10) THEN st
  ELSE With(RemoteCall(reg, env, st.calls,
                       Call("passly", "getPassportData", st.currentId, "")), LAMBDA d :
    IF ~d.ok \/ ToLowerCase(d.v.category) # normalizedCategory
    THEN ScanWholeWindow(reg, env, normalizedCategory, limit,
           [st EXCEPT !.currentId = @ + 1, !.attempts = @ + 1, !.calls = d.calls])
    ELSE With(RemoteCall(reg, env, d.calls,
                         Call("passly", "getVerifiedPlatforms", st.currentId, "")),
           LAMBDA pl :
      IF ~pl.ok
      THEN ScanWholeWindow(reg, env, normalizedCategory, limit,
             [st EXCEPT !.currentId = @ + 1, !.attempts = @ + 1, !.calls = pl.calls])
      ELSE ScanWholeWindow(reg, env, normalizedCategory, limit,
             [results |-> Append(st.results,
                            [t |-> "user", id |-> st.currentId, owner |-> d.v.owner,
                             createdAt |-> DateOf(d.v.createdAt),
                             verificationCount |-> d.v.verificationCount,
                             category |-> d.v.category, platforms |-> pl.v]),
              currentId |-> st.currentId + 1, found |-> st.found + 1,
              attempts |-> st.attempts + 1, calls |-> pl.calls])))

\* a scan that advances the identifier only after a successful probe
RECURSIVE ScanRetrying(_, _, _, _, _)
ScanRetrying(reg, env, normalizedCategory, limit, st) ==
  IF ~(st.found < limit /\ st.attempts < limit * 10) THEN st
  ELSE With(RemoteCall(reg, env, st.calls,
                       Call("passly", "getPassportData", st.currentId, "")), LAMBDA d :
    IF ~d.ok
    THEN ScanRetrying(reg, env, normalizedCategory, limit,
           [st EXCEPT !.attempts = @ + 1, !.calls = d.calls])
    ELSE IF ToLowerCase(d.v.category) # normalizedCategory
    THEN ScanRetrying(reg, env, normalizedCategory, limit,
           [st EXCEPT !.currentId = @ + 1, !.attempts = @ + 1, !.calls = d.calls])
    ELSE With(RemoteCall(reg, env, d.calls,
                         Call("passly", "getVerifiedPlatforms", st.currentId, "")),
           LAMBDA pl :
      IF ~pl.ok
      THEN ScanRetrying(reg, env, normalizedCategory, limit,
             [st EXCEPT !.attempts = @ + 1, !.calls = pl.calls])
      ELSE ScanRetrying(reg, env, normalizedCategory, limit,
             [results |-> Append(st.results,
                            [t |-> "user", id |-> st.currentId, owner |-> d.v.owner,
                             createdAt |-> DateOf(d.v.createdAt),
                             verificationCount |-> d.v.verificationCount,
                             category |-> d.v.category, platforms |-> pl.v]),
              currentId |-> st.currentId + 1, found |-> st.found + 1,
              attempts |-> st.attempts + 1, calls |-> pl.calls])))

\* the scan of getUsersByCategory; st = [results, currentId, found, attempts, calls]
RECURSIVE ScanCategory(_, _, _, _, _)
ScanCategory(reg, env, normalizedCategory, limit, st) ==
  IF ~(st.found < limit /\ st.attempts < limit * 10) THEN st
  ELSE With(RemoteCall(reg, env, st.calls,
                       Call("passly", "getPassportData", st.currentId, "")), LAMBDA d :
    IF ~d.ok \/ ToLowerCase(d.v.category) # normalizedCategory
    THEN ScanCategory(reg, env, normalizedCategory, limit,
           [st EXCEPT !.currentId = @ + 1, !.attempts = @ + 1, !.calls = d.calls])
    ELSE With(RemoteCall(reg, env, d.calls,
                         Call("passly", "getVerifiedPlatforms", st.currentId, "")),
           LAMBDA pl :
      IF ~pl.ok
      THEN ScanCategory(reg, env, normalizedCategory, limit,
             [st EXCEPT !.currentId = @ + 1, !.attempts = @ + 1, !.calls = pl.calls])
      ELSE ScanCategory(reg, env, normalizedCategory, limit,
             [results |-> Append(st.results,
                            [t |-> "user", id |-> st.currentId, owner |-> d.v.owner,
                             createdAt |-> DateOf(d.v.createdAt),
                             verificationCount |-> d.v.verificationCount,
                             category |-> d.v.category, platforms |-> pl.v]),
              currentId |-> st.currentId + 1, found |-> st.found + 1,
              attempts |-> st.attempts + 1, calls |-> pl.calls])))

\* a scan without try/catch in its loop: the first failed fetch ends it
getUsersByCategoryUncaught(reg, env, pre, category, limit, startId) ==
  With(_ensureConnected_r(pre), LAMBDA gate :
    IF IsErr(gate) THEN gate
    ELSE With(ScanCategory(reg, env, ToLowerCase(category), limit,
                [results |-> <<>>, currentId |-> startId, found |-> 0, attempts |-> 0,
                 calls |-> pre]),
           LAMBDA st :
             IF \E i \in DOMAIN st.calls : ~st.calls[i].ok
             THEN Throw(MsgUpstream,
                        SubSeq(st.calls, 1,
                               CHOOSE i \in DOMAIN st.calls :
                                 /\ ~st.calls[i].ok
                                 /\ \A j \in 1..(i - 1) : st.calls[j].ok))
             ELSE Ret(List(st.results), st.calls)))

getUsersByCategory(reg, env, pre, category, limit, startId) ==
  With(_ensureConnected_r(pre), LAMBDA gate :
    IF IsErr(gate) THEN gate
    ELSE With(ScanCategory(reg, env, ToLowerCase(category), limit,
                [results |-> <<>>, currentId |-> startId, found |-> 0, attempts |-> 0,
                 calls |-> pre]),
           LAMBDA st : Ret(List(st.results), st.calls)))

getProofHash_r(reg, env, pre, address, platform) ==
  With(getPassport_r(reg, env, pre, address), LAMBDA passport :
    IF IsErr(passport) THEN passport
    ELSE IF Falsy(passport.v) THEN Ret(Null, passport.calls)
    ELSE IF ~ObjHas(passport.v.verifications, ToLowerCase(platform))
    THEN Ret(Null, passport.calls)
    ELSE With(ObjGet(passport.v.verifications, ToLowerCase(platform)), LAMBDA verification :
           Ret(IF ~verification.active THEN Null ELSE Str(verification.proofHash),
               passport.calls)))

\* for (const platform of passport.platforms) if (verification.active) ...
RECURSIVE ActiveProofHashes_r(_, _, _)
ActiveProofHashes_r(passport, i, acc) ==
  IF i > Len(passport.platforms) THEN acc
  ELSE With(ObjGet(passport.verifications, passport.platforms[i]), LAMBDA verification :
         ActiveProofHashes_r(passport, i + 1,
           IF verification.active
           THEN ObjSet(acc, passport.platforms[i], Str(verification.proofHash)) ELSE acc))

getAllProofHashes_r(reg, env, pre, address) ==
  With(getPassport_r(reg, env, pre, address), LAMBDA passport :
    IF IsErr(passport) THEN passport
    ELSE IF Falsy(passport.v) THEN Ret(Null, passport.calls)
    ELSE Ret(Obj(ActiveProofHashes_r(passport.v, 1, <<>>)), passport.calls))

----------------------------------------------------------------------------
(* The state machine.  An instance is constructed, connected (possibly     *)
(* again), and queried; every query is one step that records in `last`     *)
(* what was asked, how the remote sources behaved, and how it ended.  The  *)
(* record is discarded before the next step.                               *)

AllSources == {"passly"} \cup OptionalSources

\* the deployed addresses connect() falls back to
DefaultAddress(src) ==
  CASE src = "passly" -> "0x8EEFC0840Bc24e269A2F77B787E9b3e212c4F316"
    [] src = "platforms" -> "0xd2FEEa5775c171D85648198AeB77377fD9AdFe98"
    [] src = "archives" -> "0xbC57EA3ff9BDE13087b907Dc02e86f08C57574E7"
    [] src = "rewards" -> "0xEc34ad267a9AACE045Ef4644047BCFeB0f53b0C0"
    [] OTHER -> "0x7f9c4841346d0ef7970daF02aE3663f8AC5bE540"
DefaultAddress_r == "0xdf88A23Dab48210b80a44128db4Ce8A786E327be"

\* a configuration: the address it gives for each source, "" when it gives none
NoAddresses == [src \in AllSources |-> ""]
Configs ==
  {NoAddresses,
   [src \in AllSources |-> IF src \in {"passly", "rewards"} THEN "0xC0FFEE" ELSE ""]}

\* the clock readings (seconds) an operation can see: before the passports
\* were created, 45 days after, 400 days after
Nows == {0, 50 + 45 * SecondsPerDay, 50 + 400 * SecondsPerDay}
DefaultNow == 50 + 45 * SecondsPerDay

NoEnv == [failAt |-> {}, absent |-> "revert", now |-> DefaultNow]

\* the sets of at most MaxFaults failing positions among the first k calls
RECURSIVE FaultSetsOf(_, _)
FaultSetsOf(k, n) ==
  IF n = 0 THEN {{}}
  ELSE {f \cup g : f \in FaultSetsOf(k, n - 1), g \in {{}} \cup {{p} : p \in 1..k}}
FaultSets(k) == FaultSetsOf(k, MaxFaults)

\* the registry's answers to the reverse lookup of an owner without passport
AbsentModes(h) ==
  IF IsAddress(h) /\ registry.passportOf[h.a] = 0 THEN {"revert", "zero"} ELSE {"revert"}

\* the environments of an operation on handle h that issues at most k calls
Envs(h, k) ==
  {[failAt |-> f, absent |-> a, now |-> DefaultNow] :
     f \in FaultSets(k), a \in AbsentModes(h)}

\* the same, for an operation that reads the clock
TimedEnvs(h, k) ==
  {[failAt |-> f, absent |-> a, now |-> n] :
     f \in FaultSets(k), a \in AbsentModes(h), n \in Nows}

\* An environment is named by what happened in it: the calls it lets fail were
\* issued, and the zero answer of the reverse lookup was given.
Happened(env, out) ==
  /\ \A p \in env.failAt : p <= Len(out.calls)
  /\ env.absent = "zero" =>
       \E i \in DOMAIN out.calls :
         out.calls[i].m = "getPassportByAddress" /\ out.calls[i].ok

NoHandle == [t |-> "none"]
NoArgs == [h |-> NoHandle, s |-> "", s2 |-> "", n |-> 0, n2 |-> 0]
OnHandle(h) == [NoArgs EXCEPT !.h = h]
OnHandleAnd(h, str) == [NoArgs EXCEPT !.h = h, !.s = str]

Idle ==
  [op |-> "idle", args |-> NoArgs, env |-> NoEnv, k |-> "ok", v |-> Undefined,
   calls |-> <<>>]

\* the record of an operation: what was asked, under what environment, and
\* how it ended; the session and the registry are left as they are
Record(op, args, env, out) ==
  /\ Happened(env, out)
  /\ last' = [op |-> op, args |-> args, env |-> env,
              k |-> out.k, v |-> out.v, calls |-> out.calls]
  /\ UNCHANGED <<variant, config, isConnected, contracts, registry>>

Multi == variant = "multi" /\ last = Idle
Reduced == variant = "reduced" /\ last = Idle

\* the longest call sequences of the operations
IdentityCalls == 3 + MaxPlatforms
ReaderCalls == 2

\* new PasslySDK(): this.config = config; this.contracts = {}; isConnected = false
Init ==
  /\ variant \in {"multi", "reduced"}
  /\ config = [given |-> NoAddresses, addresses |-> NoAddresses]
  /\ isConnected = FALSE
  /\ contracts = {}
  /\ registry \in Registries
  /\ last = Idle

\* connect(options) of the multi-source SDK
connect ==
  /\ Multi
  /\ \E options \in Configs :
       LET merged == [src \in AllSources |->
                        IF options[src] # "" THEN options[src] ELSE config.given[src]]
           addresses == [src \in AllSources |->
                           IF merged[src] # "" THEN merged[src] ELSE DefaultAddress(src)]
       IN /\ contracts' = {"passly"} \cup {src \in OptionalSources : addresses[src] # ""}
          /\ config' = [given |-> merged, addresses |-> addresses]
          /\ isConnected' = TRUE
          /\ UNCHANGED <<variant, registry, last>>

\* connect(options) of the reduced SDK
connect_r ==
  /\ Reduced
  /\ \E options \in Configs :
       LET merged == [src \in AllSources |->
                        IF options[src] # "" THEN options[src] ELSE config.given[src]]
           contractAddress == IF merged["passly"] # "" THEN merged["passly"]
                              ELSE DefaultAddress_r
       IN /\ contracts' = {"passly"}
          /\ config' = [given |-> [merged EXCEPT !["passly"] = contractAddress],
                        addresses |-> NoAddresses]
          /\ isConnected' = TRUE
          /\ UNCHANGED <<variant, registry, last>>

\* the caller has read the outcome of the last operation
Discard ==
  /\ last # Idle
  /\ last' = Idle
  /\ UNCHANGED <<variant, config, isConnected, contracts, registry>>

\* the arguments the caller passes
PlatformArgs == {"twitter", "GitHub"}
IdentifierArgs == {"@alice", "nobody"}
CategoryArgs == {"Creator", "global"}
ReferralCodes == {"REF1", "NOPE"}
Counts == {0, 1}

\* the longest call sequence of getCompleteLeaderboardData: the reverse lookup,
\* the identity, the four sub-fetches
CompositeCalls == 1 + IdentityCalls + 4

\* every subset of the four sub-fetches of getCompleteLeaderboardData, which
\* follow the reverse lookup and the 3 + n calls of an identity of n platforms
SubFetchFaults ==
  UNION {SUBSET ((1 + 3 + n + 1)..(1 + 3 + n + 4)) : n \in 0..MaxPlatforms}

\* the environments of getCompleteLeaderboardData
CompositeEnvs(h) ==
  Envs(h, CompositeCalls)
    \cup {[failAt |-> f, absent |-> a, now |-> DefaultNow] :
            f \in SubFetchFaults, a \in AbsentModes(h)}

\* the longest call sequence of getUserProfile: the identity, the two rewards
\* readers (a lookup and a read each), the leaderboard data
ProfileCalls == IdentityCalls + 2 * ReaderCalls + CompositeCalls

(* The public operations of the multi-source SDK *)

Call_getPassportId ==
  /\ Multi
  /\ \E h \in Handles : \E env \in Envs(h, 1) :
       Record("getPassportId", OnHandle(h), env, getPassportId(registry, env, <<>>, h))

Call_hasPassport ==
  /\ Multi
  /\ \E h \in Handles : \E env \in Envs(h, 1) :
       Record("hasPassport", OnHandle(h), env, hasPassport(registry, env, <<>>, h))

\* a query that tears the session down when it fails
Call_getPassportDropsSession ==
  /\ Multi
  /\ \E h \in Handles : \E env \in Envs(h, IdentityCalls) :
       \E out \in {getPassport(registry, env, <<>>, h)} :
         /\ Happened(env, out)
         /\ last' = [op |-> "getPassport", args |-> OnHandle(h), env |-> env,
                     k |-> out.k, v |-> out.v, calls |-> out.calls]
         /\ isConnected' = (isConnected /\ IsOk(out))
         /\ contracts' = IF IsOk(out) THEN contracts ELSE {}
         /\ UNCHANGED <<variant, config, registry>>

Call_getPassport ==
  /\ Multi
  /\ \E h \in Handles : \E env \in Envs(h, IdentityCalls) :
       Record("getPassport", OnHandle(h), env, getPassport(registry, env, <<>>, h))

Call_getVerifications ==
  /\ Multi
  /\ \E h \in Handles : \E env \in Envs(h, IdentityCalls) :
       Record("getVerifications", OnHandle(h), env, getVerifications(registry, env, <<>>, h))

Call_getPlatformIdentifier ==
  /\ Multi
  /\ \E h \in Handles, pf \in PlatformArgs : \E env \in Envs(h, 2) :
       Record("getPlatformIdentifier", OnHandleAnd(h, pf), env,
             getPlatformIdentifier(registry, env, <<>>, h, pf))

Call_getPoints ==
  /\ Multi
  /\ \E h \in Handles : \E env \in Envs(h, IdentityCalls) :
       Record("getPoints", OnHandle(h), env, getPoints(registry, env, <<>>, h))

Call_getPointBreakdown ==
  /\ Multi
  /\ \E h \in Handles : \E env \in Envs(h, ReaderCalls) :
       Record("getPointBreakdown", OnHandle(h), env, getPointBreakdown(registry, env, <<>>, h))

Call_getPlatformPoints ==
  /\ Multi
  /\ \E h \in Handles, pf \in PlatformArgs : \E env \in Envs(h, ReaderCalls) :
       Record("getPlatformPoints", OnHandleAnd(h, pf), env, getPlatformPoints(registry,
             env, <<>>, h, pf))

Call_getReferralInfo ==
  /\ Multi
  /\ \E h \in Handles : \E env \in Envs(h, IdentityCalls) :
       Record("getReferralInfo", OnHandle(h), env, getReferralInfo(registry, env, <<>>, h))

Call_getPassportLeaderboardEntry ==
  /\ Multi
  /\ \E h \in Handles : \E env \in Envs(h, ReaderCalls) :
       Record("getPassportLeaderboardEntry", OnHandle(h), env,
             getPassportLeaderboardEntry(registry, env, <<>>, h))

Call_getGlobalRank ==
  /\ Multi
  /\ \E h \in Handles : \E env \in Envs(h, ReaderCalls) :
       Record("getGlobalRank", OnHandle(h), env, getGlobalRank(registry, env, <<>>, h))

Call_getLeaderboardScore ==
  /\ Multi
  /\ \E h \in Handles : \E env \in Envs(h, ReaderCalls) :
       Record("getLeaderboardScore", OnHandle(h), env, getLeaderboardScore(registry, env,
             <<>>, h))

Call_isInLeaderboard ==
  /\ Multi
  /\ \E h \in Handles : \E env \in Envs(h, ReaderCalls) :
       Record("isInLeaderboard", OnHandle(h), env, isInLeaderboard(registry, env, <<>>, h))

Call_getCategoryRank ==
  /\ Multi
  /\ \E h \in Handles, cat \in CategoryArgs : \E env \in Envs(h, ReaderCalls) :
       Record("getCategoryRank", OnHandleAnd(h, cat), env, getCategoryRank(registry, env,
             <<>>, h, cat))

Call_getCategoryLeaderboardEntry ==
  /\ Multi
  /\ \E h \in Handles, cat \in CategoryArgs : \E env \in Envs(h, ReaderCalls) :
       Record("getCategoryLeaderboardEntry", OnHandleAnd(h, cat), env,
             getCategoryLeaderboardEntry(registry, env, <<>>, h, cat))

Call_getCompleteLeaderboardData ==
  /\ Multi
  /\ \E h \in Handles : \E env \in CompositeEnvs(h) :
       Record("getCompleteLeaderboardData", OnHandle(h), env,
             getCompleteLeaderboardData(registry, env, <<>>, h))

Call_getVerificationHistory ==
  /\ Multi
  /\ \E h \in Handles, pf \in PlatformArgs : \E env \in Envs(h, ReaderCalls) :
       Record("getVerificationHistory", OnHandleAnd(h, pf), env,
             getVerificationHistory(registry, env, <<>>, h, pf))

Call_getPlatformHistory ==
  /\ Multi
  /\ \E h \in Handles, pf \in PlatformArgs : \E env \in Envs(h, ReaderCalls) :
       Record("getPlatformHistory", OnHandleAnd(h, pf), env, getPlatformHistory(registry,
             env, <<>>, h, pf))

Call_getUserVerifications ==
  /\ Multi
  /\ \E h \in Handles : \E env \in Envs(h, IdentityCalls) :
       Record("getUserVerifications", OnHandle(h), env, getUserVerifications(registry, env,
             <<>>, h))

Call_hasVerifiedPlatform ==
  /\ Multi
  /\ \E h \in Handles, pf \in PlatformArgs : \E env \in Envs(h, IdentityCalls) :
       Record("hasVerifiedPlatform", OnHandleAnd(h, pf), env, hasVerifiedPlatform(registry,
             env, <<>>, h, pf))

Call_getUserProfile ==
  /\ Multi
  /\ \E h \in Handles : \E env \in Envs(h, IdentityCalls + ReaderCalls) :
       Record("getUserProfile", OnHandle(h), env, getUserProfile(registry, env, <<>>, h))

\* the same operation, with failures anywhere in its call sequence
Call_getUserProfileAnyFault ==
  /\ Multi
  /\ \E h \in Handles : \E env \in Envs(h, ProfileCalls) :
       Record("getUserProfile", OnHandle(h), env, getUserProfile(registry, env, <<>>, h))

Call_getVerificationStrength ==
  /\ Multi
  /\ \E h \in Handles : \E env \in TimedEnvs(h, IdentityCalls) :
       Record("getVerificationStrength", OnHandle(h), env,
             getVerificationStrength(registry, env, <<>>, h))

Call_getProofHash ==
  /\ Multi
  /\ \E h \in Handles, pf \in PlatformArgs : \E env \in Envs(h, IdentityCalls) :
       Record("getProofHash", OnHandleAnd(h, pf), env, getProofHash(registry, env, <<>>, h, pf))

Call_getAllProofHashes ==
  /\ Multi
  /\ \E h \in Handles : \E env \in Envs(h, IdentityCalls) :
       Record("getAllProofHashes", OnHandle(h), env, getAllProofHashes(registry, env, <<>>, h))

Call_isAccountVerified ==
  /\ Multi
  /\ \E pf \in PlatformArgs, ident \in IdentifierArgs, env \in Envs(NoHandle, 1) :
       Record("isAccountVerified", [NoArgs EXCEPT !.s = pf, !.s2 = ident], env,
             isAccountVerified(registry, env, <<>>, pf, ident))

Call_validateReferralCode ==
  /\ Multi
  /\ \E code \in ReferralCodes, env \in Envs(NoHandle, 1) :
       Record("validateReferralCode", [NoArgs EXCEPT !.s = code], env,
             validateReferralCode(registry, env, <<>>, code))

Call_getTopEntries ==
  /\ Multi
  /\ \E count \in Counts, env \in Envs(NoHandle, 1) :
       Record("getTopEntries", [NoArgs EXCEPT !.n = count], env, getTopEntries(registry,
             env, <<>>, count))

Call_getTopEntriesByCategory ==
  /\ Multi
  /\ \E cat \in CategoryArgs, count \in Counts, env \in Envs(NoHandle, 1) :
       Record("getTopEntriesByCategory", [NoArgs EXCEPT !.s = cat, !.n = count], env,
             getTopEntriesByCategory(registry, env, <<>>, cat, count))

Call_getLeaderboardStats ==
  /\ Multi
  /\ \E cat \in CategoryArgs, env \in Envs(NoHandle, 1) :
       Record("getLeaderboardStats", [NoArgs EXCEPT !.s = cat], env,
             getLeaderboardStats(registry, env, <<>>, cat))

Call_getLeaderboardCategories ==
  /\ Multi
  /\ \E env \in Envs(NoHandle, 1) :
       Record("getLeaderboardCategories", NoArgs, env, getLeaderboardCategories(registry,
             env, <<>>))

Call_getPlatformConfig ==
  /\ Multi
  /\ \E pf \in PlatformArgs, env \in Envs(NoHandle, 1) :
       Record("getPlatformConfig", [NoArgs EXCEPT !.s = pf], env,
             getPlatformConfig(registry, env, <<>>, pf))

Call_getSupportedPlatforms ==
  /\ Multi
  /\ \E env \in Envs(NoHandle, 1) :
       Record("getSupportedPlatforms", NoArgs, env, getSupportedPlatforms(registry, env, <<>>))

Call_getSupportedCategories ==
  /\ Multi
  /\ \E env \in Envs(NoHandle, 1) :
       Record("getSupportedCategories", NoArgs, env, getSupportedCategories(registry, env,
             <<>>))

Call_isPlatformSupported ==
  /\ Multi
  /\ \E pf \in PlatformArgs, env \in Envs(NoHandle, 1) :
       Record("isPlatformSupported", [NoArgs EXCEPT !.s = pf], env,
             isPlatformSupported(registry, env, <<>>, pf))

Call_getSystemConfig ==
  /\ Multi
  /\ \E env \in Envs(NoHandle, 4) :
       Record("getSystemConfig", NoArgs, env, getSystemConfig(registry, env, <<>>))

\* the private resolution step, as the readers invoke it
Call__resolvePassportId ==
  /\ Multi
  /\ \E h \in Handles : \E env \in Envs(h, 1) :
       Record("_resolvePassportId", OnHandle(h), env,
              _resolvePassportId(registry, env, <<>>, h))

(* The public operations of the reduced SDK *)

\* the calls of a category scan that may fail
ScanCalls == 4
Limits == {0, 1, 2, 5}

Call_getPassportId_r ==
  /\ Reduced
  /\ \E h \in Handles : \E env \in Envs(h, 1) :
       Record("getPassportId", OnHandle(h), env, getPassportId_r(registry, env, <<>>, h))

Call_hasPassport_r ==
  /\ Reduced
  /\ \E h \in Handles : \E env \in Envs(h, 1) :
       Record("hasPassport", OnHandle(h), env, hasPassport_r(registry, env, <<>>, h))

Call_getPassport_r ==
  /\ Reduced
  /\ \E h \in Handles : \E env \in Envs(h, IdentityCalls) :
       Record("getPassport", OnHandle(h), env, getPassport_r(registry, env, <<>>, h))

Call_getUserVerifications_r ==
  /\ Reduced
  /\ \E h \in Handles : \E env \in Envs(h, IdentityCalls) :
       Record("getUserVerifications", OnHandle(h), env, getUserVerifications_r(registry,
             env, <<>>, h))

Call_hasVerifiedPlatform_r ==
  /\ Reduced
  /\ \E h \in Handles, pf \in PlatformArgs : \E env \in Envs(h, IdentityCalls) :
       Record("hasVerifiedPlatform", OnHandleAnd(h, pf), env,
             hasVerifiedPlatform_r(registry, env, <<>>, h, pf))

Call_getPlatformIdentifier_r ==
  /\ Reduced
  /\ \E h \in Handles, pf \in PlatformArgs : \E env \in Envs(h, IdentityCalls) :
       Record("getPlatformIdentifier", OnHandleAnd(h, pf), env,
             getPlatformIdentifier_r(registry, env, <<>>, h, pf))

Call_getVerificationAge ==
  /\ Reduced
  /\ \E h \in Handles, pf \in PlatformArgs : \E env \in TimedEnvs(h, IdentityCalls) :
       Record("getVerificationAge", OnHandleAnd(h, pf), env, getVerificationAge(registry,
             env, <<>>, h, pf))

Call_getEarliestVerification ==
  /\ Reduced
  /\ \E h \in Handles : \E env \in TimedEnvs(h, IdentityCalls) :
       Record("getEarliestVerification", OnHandle(h), env,
             getEarliestVerification(registry, env, <<>>, h))

Call_getVerificationStrength_r ==
  /\ Reduced
  /\ \E h \in Handles : \E env \in TimedEnvs(h, 2 * IdentityCalls) :
       Record("getVerificationStrength", OnHandle(h), env,
             getVerificationStrength_r(registry, env, <<>>, h))

Call_getProofHash_r ==
  /\ Reduced
  /\ \E h \in Handles, pf \in PlatformArgs : \E env \in Envs(h, IdentityCalls) :
       Record("getProofHash", OnHandleAnd(h, pf), env, getProofHash_r(registry, env, <<>>,
             h, pf))

Call_getAllProofHashes_r ==
  /\ Reduced
  /\ \E h \in Handles : \E env \in Envs(h, IdentityCalls) :
       Record("getAllProofHashes", OnHandle(h), env, getAllProofHashes_r(registry, env,
             <<>>, h))

Call_getVerifications_r ==
  /\ Reduced
  /\ \E id \in Ids, env \in Envs(NoHandle, 1 + MaxPlatforms) :
       Record("getVerifications", [NoArgs EXCEPT !.n = id], env,
             getVerifications_r(registry, env, <<>>, id))

Call_isAccountVerified_r ==
  /\ Reduced
  /\ \E pf \in PlatformArgs, ident \in IdentifierArgs, env \in Envs(NoHandle, 1) :
       Record("isAccountVerified", [NoArgs EXCEPT !.s = pf, !.s2 = ident], env,
             isAccountVerified_r(registry, env, <<>>, pf, ident))

Call_getSupportedPlatforms_r ==
  /\ Reduced
  /\ \E env \in Envs(NoHandle, 1) :
       Record("getSupportedPlatforms", NoArgs, env, getSupportedPlatforms_r(registry, env,
             <<>>))

Call_getSupportedCategories_r ==
  /\ Reduced
  /\ \E env \in Envs(NoHandle, 1) :
       Record("getSupportedCategories", NoArgs, env, getSupportedCategories_r(registry,
             env, <<>>))

Call_getUsersByCategory ==
  /\ Reduced
  /\ \E cat \in CategoryArgs, limit \in Limits, startId \in Ids, env \in Envs(NoHandle,
        ScanCalls) :
       Record("getUsersByCategory", [NoArgs EXCEPT !.s = cat, !.n = limit, !.n2 = startId],
             env, getUsersByCategory(registry, env, <<>>, cat, limit, startId))

Next ==
  \/ connect
  \/ connect_r
  \/ Discard
  \/ Call_getPassportId
  \/ Call_hasPassport
  \/ Call_getPassport
  \/ Call_getVerifications
  \/ Call_getPlatformIdentifier
  \/ Call_getPoints
  \/ Call_getPointBreakdown
  \/ Call_getPlatformPoints
  \/ Call_getReferralInfo
  \/ Call_getPassportLeaderboardEntry
  \/ Call_getGlobalRank
  \/ Call_getLeaderboardScore
  \/ Call_isInLeaderboard
  \/ Call_getCategoryRank
  \/ Call_getCategoryLeaderboardEntry
  \/ Call_getCompleteLeaderboardData
  \/ Call_getVerificationHistory
  \/ Call_getPlatformHistory
  \/ Call_getUserVerifications
  \/ Call_hasVerifiedPlatform
  \/ Call_getUserProfile
  \/ Call_getVerificationStrength
  \/ Call_getProofHash
  \/ Call_getAllProofHashes
  \/ Call_isAccountVerified
  \/ Call_validateReferralCode
  \/ Call_getTopEntries
  \/ Call_getTopEntriesByCategory
  \/ Call_getLeaderboardStats
  \/ Call_getLeaderboardCategories
  \/ Call_getPlatformConfig
  \/ Call_getSupportedPlatforms
  \/ Call_getSupportedCategories
  \/ Call_isPlatformSupported
  \/ Call_getSystemConfig
  \/ Call__resolvePassportId
  \/ Call_getPassportId_r
  \/ Call_hasPassport_r
  \/ Call_getPassport_r
  \/ Call_getUserVerifications_r
  \/ Call_hasVerifiedPlatform_r
  \/ Call_getPlatformIdentifier_r
  \/ Call_getVerificationAge
  \/ Call_getEarliestVerification
  \/ Call_getVerificationStrength_r
  \/ Call_getProofHash_r
  \/ Call_getAllProofHashes_r
  \/ Call_getVerifications_r
  \/ Call_isAccountVerified_r
  \/ Call_getSupportedPlatforms_r
  \/ Call_getSupportedCategories_r
  \/ Call_getUsersByCategory

Spec == Init /\ [][Next]_vars

----------------------------------------------------------------------------
(* Sessions with unbound optional sources.  connect() binds all five       *)
(* sources (an address that is not given falls back to the deployed one), *)
(* so the only sessions in which an optional source is unbound are those  *)
(* whose public `contracts` field the caller has changed.  The second     *)
(* specification adds that step and keeps the operations that read the    *)
(* optional sources.                                                      *)

\* delete sdk.contracts[src], by the caller
Unbind ==
  /\ Multi
  /\ isConnected
  /\ \E src \in contracts \ {"passly"} :
       /\ contracts' = contracts \ {src}
       /\ UNCHANGED <<variant, config, isConnected, registry, last>>

InitUnbound == Init /\ variant = "multi"

NextUnbound ==
  \/ connect
  \/ Unbind
  \/ Discard
  \/ Call_getPoints
  \/ Call_getPointBreakdown
  \/ Call_getPlatformPoints
  \/ Call_getReferralInfo
  \/ Call_validateReferralCode
  \/ Call_getTopEntries
  \/ Call_getPassportLeaderboardEntry
  \/ Call_getGlobalRank
  \/ Call_getLeaderboardScore
  \/ Call_isInLeaderboard
  \/ Call_getTopEntriesByCategory
  \/ Call_getCategoryRank
  \/ Call_getCategoryLeaderboardEntry
  \/ Call_getLeaderboardStats
  \/ Call_getLeaderboardCategories
  \/ Call_getCompleteLeaderboardData
  \/ Call_getVerificationHistory
  \/ Call_getPlatformHistory
  \/ Call_getPlatformConfig
  \/ Call_getSupportedPlatforms
  \/ Call_isPlatformSupported
  \/ Call_getSystemConfig
  \/ Call_getUserProfile

SpecUnbound == InitUnbound /\ [][NextUnbound]_vars

\* the same sessions, queried through the two readers of the rewards source
\* that fall back on the Identity
NextFallback ==
  \/ connect
  \/ Unbind
  \/ Discard
  \/ Call_getPoints
  \/ Call_getReferralInfo

SpecFallback == InitUnbound /\ [][NextFallback]_vars

----------------------------------------------------------------------------
(* The profile under failures of any of its calls.  The fourth             *)
(* specification queries the profile alone, in sessions where the caller   *)
(* may have unbound the sources of its facets, for identities whose        *)
(* verifications are all active (the active flag plays no part in the      *)
(* profile).                                                               *)

\* delete sdk.contracts.rewards or sdk.contracts.leaderboard, by the caller
UnbindFacetSource ==
  /\ Multi
  /\ isConnected
  /\ \E src \in contracts \cap {"rewards", "leaderboard"} :
       /\ contracts' = contracts \ {src}
       /\ UNCHANGED <<variant, config, isConnected, registry, last>>

InitProfile ==
  /\ Init
  /\ variant = "multi"
  /\ registry.passports[1].active = Range(registry.passports[1].platforms)

NextProfile ==
  \/ connect
  \/ UnbindFacetSource
  \/ Discard
  \/ Call_getUserProfileAnyFault

SpecProfile == InitProfile /\ [][NextProfile]_vars

----------------------------------------------------------------------------
(* Identities of more platforms and of fewer points than those of          *)
(* Registries, and registries of two passports.  The third specification  *)
(* queries the proof hashes and the verification strength of such         *)
(* identities, in both variants, and scans the registry by category.       *)

\* the platform lists: none, one platform of each kind, and three social, two
\* developer and one chain platform
ScenarioLists ==
  {<<>>, <<"twitter", "github", "solana">>,
   <<"twitter", "discord", "telegram", "github", "gitlab", "solana">>}

ScenarioPoints == {0, 250}

\* "0xA" owns passport 1, of the given platforms, active subset and points
ScenarioRegistries ==
  {[passportOf |-> [a \in Addresses |-> IF a = "0xA" THEN 1 ELSE 0],
    passports |-> [i \in Ids |->
                    IF i = 1
                    THEN [PassportOf("0xA", pl, act) EXCEPT !.totalPoints = pts]
                    ELSE NoPassport]] :
     <<pl, act>> \in UNION {{<<l, a>> : a \in SUBSET Range(l)} : l \in ScenarioLists},
     pts \in ScenarioPoints}

\* the same, with a second passport of the same category, owned by an
\* address that is never asked about
TwoPassportRegistries ==
  {[reg EXCEPT !.passports[2] = PassportOf("0xC", <<"twitter">>, {"twitter"})] :
     reg \in {r \in ScenarioRegistries : r.passports[1].totalPoints = 250}}

InitScenario ==
  /\ variant \in {"multi", "reduced"}
  /\ config = [given |-> NoAddresses, addresses |-> NoAddresses]
  /\ isConnected = FALSE
  /\ contracts = {}
  /\ registry \in ScenarioRegistries \cup TwoPassportRegistries
  /\ last = Idle

NextScenario ==
  \/ connect
  \/ connect_r
  \/ Discard
  \/ Call_getAllProofHashes
  \/ Call_getAllProofHashes_r
  \/ Call_getVerificationStrength
  \/ Call_getVerificationStrength_r
  \/ Call_getUsersByCategory

SpecScenario == InitScenario /\ [][NextScenario]_vars

----------------------------------------------------------------------------
(* The verification strength in sessions without rewards source.  The      *)
(* fifth specification scores the identities of ScenarioRegistries in the  *)
(* multi-source SDK, in sessions where the caller may have unbound the     *)
(* rewards (or leaderboard) source.                                        *)

InitStrength ==
  /\ variant = "multi"
  /\ config = [given |-> NoAddresses, addresses |-> NoAddresses]
  /\ isConnected = FALSE
  /\ contracts = {}
  /\ registry \in ScenarioRegistries
  /\ last = Idle

NextStrength ==
  \/ connect
  \/ UnbindFacetSource
  \/ Discard
  \/ Call_getVerificationStrength

SpecStrength == InitStrength /\ [][NextStrength]_vars

----------------------------------------------------------------------------
(* The scan of getUsersByCategory, iteration by iteration.  In the sixth   *)
(* specification the scan of the reduced SDK is a process: it is begun,    *)
(* makes one iteration of its loop per step, and returns when the loop     *)
(* condition fails.  While it runs, `last` holds its local variables       *)
(* (k = "running").  Every remote call returns or fails, so an iteration   *)
(* that is begun is completed: the step is weakly fair.                    *)

MaxLimit == 2

\* past this many probes the model counts modulo 2 (see ScanFold)
ProbeCap == 10 * MaxLimit + 2

\* Infinity as a limit: a number greater than every counter, with
\* Infinity * 10 = Infinity
Infinity == ProbeCap + 1

\* const maxAttempts = limit * 10
MaxAttempts(limit) == IF limit = Infinity THEN Infinity ELSE limit * 10

ScanLimits == 0..MaxLimit \cup {Infinity}

\* the registries scanned: passport 1 without platforms, alone or followed by
\* passport 2 of the same category
ScanRegistries ==
  {r \in ScenarioRegistries \cup TwoPassportRegistries : r.passports[1].platforms = <<>>}

\* while (found < limit && attempts < maxAttempts)
ScanContinues(limit, st) == st.found < limit /\ st.attempts < MaxAttempts(limit)

\* one iteration of the loop, from the local variables st
ScanIteration(reg, env, normalizedCategory, st) ==
  With(RemoteCall(reg, env, st.calls,
                  Call("passly", "getPassportData", st.currentId, "")), LAMBDA d :
    IF ~d.ok \/ ToLowerCase(d.v.category) # normalizedCategory
    THEN [st EXCEPT !.currentId = @ + 1, !.attempts = @ + 1, !.calls = d.calls]
    ELSE With(RemoteCall(reg, env, d.calls,
                         Call("passly", "getVerifiedPlatforms", st.currentId, "")),
           LAMBDA pl :
      IF ~pl.ok
      THEN [st EXCEPT !.currentId = @ + 1, !.attempts = @ + 1, !.calls = pl.calls]
      ELSE [results |-> Append(st.results,
                         [t |-> "user", id |-> st.currentId, owner |-> d.v.owner,
                          createdAt |-> DateOf(d.v.createdAt),
                          verificationCount |-> d.v.verificationCount,
                          category |-> d.v.category, platforms |-> pl.v]),
            currentId |-> st.currentId + 1, found |-> st.found + 1,
            attempts |-> st.attempts + 1, calls |-> pl.calls]))

\* A scan that has made more than ProbeCap probes has an infinite limit (a
\* finite one allows 10 * MaxLimit) and is past the last passport: each further
\* iteration is one failed probe, and no comparison of the loop depends on the
\* counters.  Such an iteration is folded onto the state one probe earlier.
ScanFold(st) ==
  IF st.attempts <= ProbeCap THEN st
  ELSE [st EXCEPT !.currentId = @ - 2, !.attempts = @ - 2,
                  !.calls = SubSeq(@, 1, Len(@) - 2)]

\* the local variables of the running scan
ScanState ==
  [results |-> last.v.results, currentId |-> last.v.currentId, found |-> last.v.found,
   attempts |-> last.v.attempts, calls |-> last.calls]

Scanning == last.op = "getUsersByCategory" /\ last.k = "running"

\* getUsersByCategory(category, limit, startId) up to its loop
Begin_getUsersByCategory ==
  /\ Reduced
  /\ \E cat \in CategoryArgs, limit \in ScanLimits, startId \in Ids,
        env \in Envs(NoHandle, ScanCalls) :
       \E gate \in {_ensureConnected_r(<<>>)} :
         /\ last' = [op |-> "getUsersByCategory",
                     args |-> [NoArgs EXCEPT !.s = cat, !.n = limit, !.n2 = startId],
                     env |-> env,
                     k |-> IF IsErr(gate) THEN "err" ELSE "running",
                     v |-> IF IsErr(gate) THEN gate.v
                           ELSE [t |-> "scan", results |-> <<>>, currentId |-> startId,
                                 found |-> 0, attempts |-> 0],
                     calls |-> <<>>]
         /\ UNCHANGED <<variant, config, isConnected, contracts, registry>>

\* the loop condition is tested: one more iteration, or return results
Step_getUsersByCategory ==
  /\ Scanning
  /\ IF ScanContinues(last.args.n, ScanState)
     THEN \E st \in {ScanFold(ScanIteration(registry, last.env, ToLowerCase(last.args.s),
                                            ScanState))} :
            last' = [last EXCEPT !.v = [t |-> "scan", results |-> st.results,
                                        currentId |-> st.currentId, found |-> st.found,
                                        attempts |-> st.attempts],
                                 !.calls = st.calls]
     ELSE last' = [last EXCEPT !.k = "ok", !.v = List(last.v.results)]
  /\ UNCHANGED <<variant, config, isConnected, contracts, registry>>

InitScan ==
  /\ variant = "reduced"
  /\ config = [given |-> NoAddresses, addresses |-> NoAddresses]
  /\ isConnected = FALSE
  /\ contracts = {}
  /\ registry \in ScanRegistries
  /\ last = Idle

NextScan ==
  \/ connect_r
  \/ Begin_getUsersByCategory
  \/ Step_getUsersByCategory
  \/ (~Scanning /\ Discard)

SpecScan == InitScan /\ [][NextScan]_vars /\ WF_vars(Step_getUsersByCategory)

----------------------------------------------------------------------------
(* A registry that changes.  The registry is a ledger other parties write  *)
(* to: a verification is added or revoked, a passport is removed.  In the  *)
(* seventh specification such transactions happen between the operations   *)
(* of the reduced SDK and between the two reads of the passport that its   *)
(* getVerificationStrength makes (its own, and the one inside              *)
(* getEarliestVerification); an await between them lets a transaction in.  *)

\* the registries one transaction on the passport of "0xA" leads to
LedgerSteps(reg) ==
  IF reg.passportOf["0xA"] = 0 THEN {}
  ELSE With(reg.passportOf["0xA"], LAMBDA id :
    {[reg EXCEPT !.passports[id].active = @ \ {p}, !.passports[id].verificationCount = @ - 1] :
       p \in reg.passports[id].active}
    \cup
    {[reg EXCEPT !.passports[id].active = @ \cup {p}, !.passports[id].verificationCount = @ + 1,
                 !.passports[id].platforms =
                    IF p \in Range(@) THEN @ ELSE Append(@, p)] :
       p \in Platforms \ reg.passports[id].active}
    \cup
    {[reg EXCEPT !.passportOf["0xA"] = 0, !.passports[id] = NoPassport]})

\* a transaction is included between two operations
LedgerStep ==
  /\ last = Idle
  /\ registry' \in LedgerSteps(registry)
  /\ UNCHANGED <<variant, config, isConnected, contracts, last>>

\* getVerificationStrength of the reduced SDK, with at most one transaction
\* included between its two reads
Call_getVerificationStrengthAcross ==
  /\ Reduced
  /\ \E h \in Handles : \E env \in TimedEnvs(h, IdentityCalls) :
       \E reg2 \in {registry} \cup LedgerSteps(registry) :
         \E out \in {getVerificationStrengthAcross(registry, reg2, env, <<>>, h)} :
           /\ Happened(env, out)
           /\ last' = [op |-> "getVerificationStrength", args |-> OnHandle(h), env |-> env,
                       k |-> out.k, v |-> out.v, calls |-> out.calls]
           /\ registry' = reg2
           /\ UNCHANGED <<variant, config, isConnected, contracts>>

InitLedger ==
  /\ variant = "reduced"
  /\ config = [given |-> NoAddresses, addresses |-> NoAddresses]
  /\ isConnected = FALSE
  /\ contracts = {}
  /\ registry \in Registries
  /\ last = Idle

NextLedger ==
  \/ connect_r
  \/ Discard
  \/ LedgerStep
  \/ Call_getVerificationStrengthAcross

SpecLedger == InitLedger /\ [][NextLedger]_vars

----------------------------------------------------------------------------
(* Properties.  `last` holds the operation that has just ended; the        *)
(* session it ran in is the current one (connect and Unbind wait for the   *)
(* record to be discarded).                                                *)

\* a public query operation has just ended
Queried == last.op \notin {"idle", "_resolvePassportId"}

\* the failed calls of the last operation, by position
FailedAt == {i \in DOMAIN last.calls : ~last.calls[i].ok}

\* the handle of the last operation is an owner address without passport
OwnerWithoutPassport ==
  IsAddress(last.args.h) /\ registry.passportOf[last.args.h.a] = 0

\* the handle of the last operation is an owner address with a passport
OwnerWithPassport ==
  IsAddress(last.args.h) /\ registry.passportOf[last.args.h.a] # 0

\* C1: every public query operation of either variant, invoked before connect()
\* has completed, fails with the not-connected error and issues no remote call.
C1_NotConnectedGate ==
  (Queried /\ ~isConnected) =>
    /\ last.k = "err"
    /\ last.v = ErrorValue(MsgNotConnected)
    /\ last.calls = <<>>

\* a composite operation of the multi-source variant was refused before connect()
C1_Witness ==
  /\ variant = "multi" /\ ~isConnected
  /\ last.op = "getUserProfile" /\ last.args.h = AddrH("0xA")
  /\ last.v = ErrorValue(MsgNotConnected)

\* C2: for an owner address without identity, whether the registry says so by
\* the 'User has no passport' failure or by the zero identifier, getPassportId
\* and getPassport return null and hasPassport returns false.
C2_NoIdentityIsAbsent ==
  (/\ isConnected /\ OwnerWithoutPassport /\ last.env.failAt = {}
   /\ last.op \in {"getPassportId", "getPassport", "hasPassport"}) =>
    /\ last.k = "ok"
    /\ last.v = IF last.op = "hasPassport" THEN Bool(FALSE) ELSE Null

\* the calls of getPassport to the identity registry that an identity needs
MandatoryMethods == {"getPassportByAddress", "getPassportData", "getVerifiedPlatforms"}

\* C3: in getPassport, a network or ledger failure of the reverse lookup, of
\* getPassportData or of getVerifiedPlatforms reaches the caller as an error; it
\* never makes getPassport return null.
C3_MandatoryFailurePropagates ==
  (/\ isConnected /\ last.op = "getPassport"
   /\ \E i \in last.env.failAt : last.calls[i].m \in MandatoryMethods) =>
    last.k = "err"

\* the readers of the optional sources, by the source they read
RewardsReaders ==
  {"getPoints", "getPointBreakdown", "getPlatformPoints", "getReferralInfo",
   "validateReferralCode"}
LeaderboardReaders ==
  {"getTopEntries", "getPassportLeaderboardEntry", "getGlobalRank", "getLeaderboardScore",
   "isInLeaderboard", "getTopEntriesByCategory", "getCategoryRank",
   "getCategoryLeaderboardEntry", "getLeaderboardStats", "getLeaderboardCategories",
   "getCompleteLeaderboardData"}
ArchivesReaders == {"getVerificationHistory", "getPlatformHistory"}
PlatformsReaders == {"getPlatformConfig", "getSupportedPlatforms", "isPlatformSupported"}
OptionalReaders ==
  RewardsReaders \cup LeaderboardReaders \cup ArchivesReaders \cup PlatformsReaders

SourceOf(op) ==
  CASE op \in RewardsReaders -> "rewards"
    [] op \in LeaderboardReaders -> "leaderboard"
    [] op \in ArchivesReaders -> "archives"
    [] OTHER -> "platforms"

\* the absent value of a reader: false, the empty list or null
AbsentOf(op) ==
  CASE op \in {"isInLeaderboard", "isPlatformSupported"} -> Bool(FALSE)
    [] op \in {"getLeaderboardCategories", "getSupportedPlatforms"} -> List(<<>>)
    [] OTHER -> Null

\* the value a reader degrades to when its source fails
DegradedOf(op) ==
  IF op = "validateReferralCode"
  THEN [t |-> "validation", isValid |-> FALSE, ownerPassportId |-> Null]
  ELSE AbsentOf(op)

\* a reader of an optional source has ended in a session where the source is unbound
ReadUnbound ==
  /\ variant = "multi" /\ isConnected
  /\ last.op \in OptionalReaders
  /\ SourceOf(last.op) \notin contracts

\* the readers that fall back on the base identity when rewards is unbound
FallbackReaders == {"getPoints", "getReferralInfo"}

C5_OptionalFailureDegrades ==
  (/\ variant = "multi" /\ isConnected
   /\ last.op \in OptionalReaders
   /\ SourceOf(last.op) \in contracts
   /\ \E i \in FailedAt : last.calls[i].src = SourceOf(last.op)) =>
    last.k = "ok" /\ last.v = DegradedOf(last.op)

\* the operations keyed by a handle (address or passport identifier)
HandleKeyed ==
  {"getVerifications", "getPoints", "getPointBreakdown", "getPlatformPoints",
   "getReferralInfo", "getPassportLeaderboardEntry", "getGlobalRank",
   "getLeaderboardScore", "isInLeaderboard", "getCategoryRank",
   "getCategoryLeaderboardEntry", "getCompleteLeaderboardData",
   "getVerificationHistory", "getPlatformHistory"}

\* C6: every handle-keyed operation called on a connected session with a
\* malformed handle fails with the invalid-handle error.
C6_MalformedHandleFails ==
  (/\ variant = "multi" /\ isConnected
   /\ last.op \in HandleKeyed /\ last.args.h = BadH) =>
    last.k = "err" /\ last.v = ErrorValue(MsgInvalidHandle)

\* C7: resolution ends in exactly one outcome.  A numeric handle (number or
\* all-digit string) is returned as that identifier (a number with a fraction,
\* as its integer part) with no remote call.  An
\* address is resolved by exactly one reverse lookup of that address, and ends
\* as the identifier the registry returned (when it is not zero), as the
\* no-identity outcome (the registry reverted with 'User has no passport' or
\* returned zero), or as the error of the failed lookup.
C7_ResolutionTotal ==
  (last.op = "_resolvePassportId" /\ isConnected) =>
    /\ IsNumeric(last.args.h) =>
         last.k = "ok" /\ last.v = Num(last.args.h.n) /\ last.calls = <<>>
         /\ last.env.failAt = {}
    /\ IsAddress(last.args.h) =>
         /\ Len(last.calls) = 1
         /\ last.calls[1].src = "passly" /\ last.calls[1].m = "getPassportByAddress"
         /\ last.calls[1].s = last.args.h.a
         /\ IF 1 \in last.env.failAt
            THEN last.k = "err" /\ last.v = ErrorValue(MsgUpstream)
            ELSE IF registry.passportOf[last.args.h.a] # 0
            THEN last.k = "ok" /\ last.v = Num(registry.passportOf[last.args.h.a])
            ELSE last.k = "err" /\ last.v = ErrorValue(MsgNoPassportFound)

\* an address was resolved to the identifier of its passport by one lookup
C7_Witness ==
  /\ last.op = "_resolvePassportId" /\ isConnected
  /\ last.args.h = AddrH("0xA") /\ last.v = Num(1) /\ Len(last.calls) = 1

\* the platforms whose verification the last operation fetched / fetched successfully
Fetched == {last.calls[i].s : i \in {j \in DOMAIN last.calls :
                                       last.calls[j].m = "getVerification"}}
FetchedOk == {last.calls[i].s : i \in {j \in DOMAIN last.calls :
                                         last.calls[j].m = "getVerification"
                                         /\ last.calls[j].ok}}

\* C8: in getPassport of the multi-source variant, when the base record and the
\* platform list were fetched, whatever subset of the getVerification calls
\* fails, an Identity is returned; every listed platform was fetched, and the
\* keys of its verifications are exactly the platforms whose fetch succeeded,
\* each with the detail the registry holds.
C8_PartialSuccess ==
  (/\ variant = "multi" /\ isConnected /\ last.op = "getPassport"
   /\ OwnerWithPassport /\ last.env.failAt \cap {1, 2, 3} = {}) =>
    /\ last.k = "ok" /\ last.v.t = "passport"
    /\ last.v.platforms = registry.passports[last.v.id].platforms
    /\ Fetched = Range(last.v.platforms)
    /\ ObjKeySet(last.v.verifications) = FetchedOk
    /\ \A p \in FetchedOk :
         /\ ObjGet(last.v.verifications, p).identifier = IdentifierOn(p)
         /\ ObjGet(last.v.verifications, p).active
              = (p \in registry.passports[last.v.id].active)

\* an Identity with two listed platforms came back with the one that loaded
C8_Witness ==
  /\ variant = "multi" /\ last.op = "getPassport" /\ last.k = "ok"
  /\ last.v.t = "passport"
  /\ Len(last.v.platforms) = 2 /\ Len(last.v.verifications) = 1
  /\ Cardinality(FetchedOk) = 1 /\ Cardinality(Fetched) = 2

\* C9: for every Identity getPassport returns, the names in platforms are the
\* keys of verifications.
C9_PlatformsAreKeys ==
  (last.op = "getPassport" /\ last.k = "ok" /\ last.v.t = "passport") =>
    Range(last.v.platforms) = ObjKeySet(last.v.verifications)

\* the Identity the last operation was computed from
IdentityOfLast ==
  IF variant = "multi" THEN getPassport(registry, last.env, <<>>, last.args.h).v
  ELSE getPassport_r(registry, last.env, <<>>, last.args.h).v

\* C10: the keys of the mapping getUserVerifications returns are exactly the
\* platforms with an active verification in the Identity, each with its
\* identifier; no platform whose verification is inactive in the Identity or in
\* the registry is a key.
C10_ActiveFilter ==
  (last.op = "getUserVerifications" /\ last.k = "ok" /\ last.v # Null) =>
    /\ last.v.t = "obj" /\ IdentityOfLast.t = "passport"
    /\ ObjKeySet(last.v.es) =
         {p \in ObjKeySet(IdentityOfLast.verifications) :
            ObjGet(IdentityOfLast.verifications, p).active}
    /\ \A p \in ObjKeySet(last.v.es) :
         /\ ObjGet(last.v.es, p)
              = Str(ObjGet(IdentityOfLast.verifications, p).identifier)
         /\ p \in registry.passports[IdentityOfLast.id].active

\* of two verified platforms, only the active one is in the view
C10_Witness ==
  /\ last.op = "getUserVerifications" /\ last.k = "ok" /\ last.v # Null
  /\ Len(IdentityOfLast.verifications) = 2
  /\ Len(last.v.es) = 1

\* the calls of the last operation to method m of source src that were answered
OkCalls(src, m) ==
  {i \in DOMAIN last.calls :
     last.calls[i].src = src /\ last.calls[i].m = m /\ last.calls[i].ok}

\* the calls of the last operation to source src, answered or not
CallsTo(src) == {i \in DOMAIN last.calls : last.calls[i].src = src}

\* the identifier and the registry's record of the owner the last operation was
\* asked about (an owner with passport)
OwnerId == registry.passportOf[last.args.h.a]
OwnerRecord == registry.passports[OwnerId]

\* getUserProfile was called for an owner with passport and the calls of its
\* base Identity (reverse lookup, base record, platform list) were answered
ProfileBaseFetched ==
  /\ variant = "multi" /\ isConnected /\ last.op = "getUserProfile"
  /\ OwnerWithPassport /\ last.env.failAt \cap {1, 2, 3} = {}

\* the facets the sources hold for the owner of the last operation
PointsOfOwner ==
  [t |-> "breakdown", holding |-> 0, platform |-> OwnerRecord.totalPoints,
   referral |-> 0, total |-> OwnerRecord.totalPoints]
ReferralsOfOwner ==
  ReferralValue(OwnerRecord.referralCode, "0xB", OwnerRecord.totalReferrals, 30)
ReferralsOfIdentity ==
  ReferralValue(OwnerRecord.referralCode, ZeroAddress, OwnerRecord.totalReferrals, 0)

\* the branches of getUserProfile that obtained their facet from their source
PointsBranchOk ==
  "rewards" \in contracts /\ OkCalls("rewards", "getPointBreakdown") # {}
ReferralsBranchOk ==
  "rewards" \in contracts /\ OkCalls("rewards", "getReferralInfo") # {}
\* the leaderboard branch issues its sub-fetches exactly when it has resolved
\* the handle and fetched the Identity
LeaderboardBranchOk ==
  "leaderboard" \in contracts /\ CallsTo("leaderboard") # {}

SnapshotIdentityFetched ==
  /\ variant = "multi" /\ isConnected /\ last.op = "getCompleteLeaderboardData"
  /\ "leaderboard" \in contracts
  /\ OwnerWithPassport /\ last.env.failAt \cap {1, 2, 3, 4} = {}

\* the sub-fetches of the last operation that failed, by the method they call
SubFetchFailed(m) ==
  \E i \in FailedAt : last.calls[i].src = "leaderboard" /\ last.calls[i].m = m

\* each sub-fetch was issued once, for the Identity and its category
SubFetchesIssued ==
  /\ \A m \in {"getPassportEntry", "getPassportEntryByCategory",
               "isPassportInLeaderboard", "getSupportedCategories"} :
       Cardinality({i \in CallsTo("leaderboard") : last.calls[i].m = m}) = 1
  /\ \A i \in CallsTo("leaderboard") :
       /\ last.calls[i].m # "getSupportedCategories" => last.calls[i].id = OwnerId
       /\ last.calls[i].m = "getPassportEntryByCategory" =>
            last.calls[i].s = OwnerRecord.category

\* C12: in getCompleteLeaderboardData, once the Identity's category has been
\* obtained, a snapshot is returned whatever subset of the four sub-fetches
\* fails; the fields of the failed ones are null / null / false / [] and every
\* other field carries what its own call returned.
C12_SubFetchesDegradeIndependently ==
  SnapshotIdentityFetched =>
    /\ last.k = "ok" /\ last.v.t = "leaderboardData"
    /\ last.v.passportId = OwnerId /\ last.v.category = OwnerRecord.category
    /\ SubFetchesIssued
    /\ last.v.global =
         IF SubFetchFailed("getPassportEntry") THEN Null
         ELSE _formatLeaderboardEntry(LeaderboardEntry(registry, OwnerId, "global"))
    /\ last.v.categorySpecific =
         IF SubFetchFailed("getPassportEntryByCategory") THEN Null
         ELSE _formatLeaderboardEntry(
                LeaderboardEntry(registry, OwnerId, OwnerRecord.category))
    /\ last.v.isInLeaderboard =
         IF SubFetchFailed("isPassportInLeaderboard") THEN Bool(FALSE) ELSE Bool(TRUE)
    /\ last.v.availableCategories =
         IF SubFetchFailed("getSupportedCategories") THEN List(<<>>)
         ELSE StrList(<<"global", "creator", "developer">>)

\* the global entry and the is-ranked flag failed; the category entry and the
\* category list, issued with them, carry their values
C12_Witness ==
  /\ SnapshotIdentityFetched /\ last.k = "ok"
  /\ SubFetchFailed("getPassportEntry") /\ SubFetchFailed("isPassportInLeaderboard")
  /\ Cardinality(FailedAt) = 2
  /\ last.v.global = Null /\ last.v.isInLeaderboard = Bool(FALSE)
  /\ last.v.categorySpecific # Null /\ last.v.categorySpecific.rank = 1
  /\ last.v.availableCategories # List(<<>>)


\* the operations of C13, in a session where they take the path of the claim
HandleFormOps ==
  {"getCompleteLeaderboardData"} \cup FallbackReaders

OnClaimedPath ==
  IF last.op \in FallbackReaders THEN "rewards" \notin contracts
  ELSE "leaderboard" \in contracts

\* what the last operation returns for the address that owns passport id
ResultByOwner(id) ==
  CASE last.op = "getPoints" ->
         getPoints(registry, NoEnv, <<>>, AddrH(registry.passports[id].owner))
    [] last.op = "getReferralInfo" ->
         getReferralInfo(registry, NoEnv, <<>>, AddrH(registry.passports[id].owner))
    [] OTHER ->
         getCompleteLeaderboardData(registry, NoEnv, <<>>,
                                    AddrH(registry.passports[id].owner))

\* C13: with every remote call answered, getCompleteLeaderboardData (and
\* getPoints and getReferralInfo with rewards unbound) called with the
\* identifier of an existing identity, as a number or as a digit string, returns
\* the same result, not null, as when called with the address of its owner.
C13_HandleFormsAgree ==
  \A id \in Ids :
    (/\ variant = "multi" /\ isConnected
     /\ last.op \in HandleFormOps /\ OnClaimedPath
     /\ last.args.h \in {NumH(id), DigitsH(id)}
     /\ PassportExists(registry, id) /\ last.env.failAt = {}) =>
      /\ last.k = "ok" /\ last.v # Null
      /\ last.v = ResultByOwner(id).v


\* the platforms of the owner whose verification the last operation fetched
\* and the registry holds as active
ActiveFetched == {p \in FetchedOk : p \in OwnerRecord.active}

\* C14: the mapping getAllProofHashes returns for an identity has as keys
\* exactly the platforms with an active verification whose fetch succeeded, each
\* mapped to the proof hash of that verification; when the platform list was
\* fetched and there is such a platform, a mapping is returned.
C14_ProofHashesOfActive ==
  (/\ last.op = "getAllProofHashes" /\ isConnected
   /\ OwnerWithPassport /\ last.k = "ok") =>
    /\ last.v # Null =>
         /\ last.v.t = "obj"
         /\ ObjKeySet(last.v.es) = ActiveFetched
         /\ \A p \in ActiveFetched : ObjGet(last.v.es, p) = Str(ProofHashOf(p))
    /\ (OkCalls("passly", "getVerifiedPlatforms") # {} /\ ActiveFetched # {}) =>
         last.v # Null

\* of three verified platforms, two active and one inactive, the mapping has
\* exactly the two active ones
C14_Witness ==
  /\ last.op = "getAllProofHashes" /\ last.k = "ok" /\ last.v # Null
  /\ OwnerWithPassport
  /\ Len(OwnerRecord.platforms) = 3 /\ Cardinality(OwnerRecord.active) = 2
  /\ last.env.failAt = {}
  /\ ObjKeySet(last.v.es) = OwnerRecord.active


\* what getAllProofHashes returns in this session for an address without identity
HashesWithoutIdentity ==
  IF variant = "multi" THEN getAllProofHashes(registry, NoEnv, <<>>, AddrH("0xB")).v
  ELSE getAllProofHashes_r(registry, NoEnv, <<>>, AddrH("0xB")).v

\* C15: what getAllProofHashes returns for an owner whose identity exists but
\* has no active verification differs from what it returns for an address
\* without identity.
C15_NoPassportDistinguished ==
  (/\ last.op = "getAllProofHashes" /\ isConnected /\ last.k = "ok"
   /\ OwnerWithPassport /\ OwnerRecord.active = {} /\ last.env.failAt = {}) =>
    /\ registry.passportOf["0xB"] = 0
    /\ last.v # HashesWithoutIdentity


\* the base-record probes of the last operation, by position
Probes == {i \in DOMAIN last.calls : last.calls[i].m = "getPassportData"}

\* C16: for every category, limit >= 0, start identifier and registry,
\* getUsersByCategory issues at most limit x 10 base-record probes, of
\* consecutive identifiers from the start identifier, and returns at most limit
\* results.
C16_ScanBounds ==
  (last.op = "getUsersByCategory" /\ isConnected) =>
    /\ Cardinality(Probes) <= last.args.n * 10
    /\ {last.calls[i].id : i \in Probes}
         = {last.args.n2 + j : j \in 0..(Cardinality(Probes) - 1)}
    /\ last.k = "ok" => last.v.t = "list" /\ Len(last.v.xs) <= last.args.n

\* a scan with limit 5 used all its 50 probes and found the two passports of the
\* category
C16_Witness ==
  /\ last.op = "getUsersByCategory" /\ isConnected
  /\ last.args.n = 5 /\ Cardinality(Probes) = 50
  /\ last.k = "ok" /\ Len(last.v.xs) = 2

\* a scan with limit 1 stopped at its first match although a second passport
\* of the category follows
C16_WitnessLimitReached ==
  /\ last.op = "getUsersByCategory" /\ isConnected
  /\ last.args.n = 1 /\ last.args.n2 = 1 /\ last.k = "ok"
  /\ Len(last.v.xs) = 1 /\ Cardinality(Probes) = 1
  /\ PassportExists(registry, 2)


\* the identifiers the last scan probed whose base record was answered with the
\* category asked for and whose platform list was answered
ScanMatches ==
  {last.calls[i].id : i \in {j \in Probes :
     /\ last.calls[j].ok
     /\ PassportExists(registry, last.calls[j].id)
     /\ ToLowerCase(registry.passports[last.calls[j].id].category)
          = ToLowerCase(last.args.s)
     /\ \E k \in OkCalls("passly", "getVerifiedPlatforms") :
          last.calls[k].id = last.calls[j].id}}

\* C17: on a connected session getUsersByCategory never fails.  Whichever
\* base-record probes and platform-list fetches fail, it returns a list: the
\* probed identifiers of the category whose two fetches were answered, in
\* ascending order; an identifier with a failed fetch is skipped.
C17_ScanNeverFails ==
  (last.op = "getUsersByCategory" /\ isConnected) =>
    /\ last.k = "ok" /\ last.v.t = "list"
    /\ {last.v.xs[i].id : i \in DOMAIN last.v.xs} = ScanMatches
    /\ \A i, j \in DOMAIN last.v.xs : i < j => last.v.xs[i].id < last.v.xs[j].id

\* the platform list of passport 1 failed after its category had matched; the
\* scan skipped it and returned passport 2
C17_Witness ==
  /\ last.op = "getUsersByCategory" /\ isConnected /\ last.k = "ok"
  /\ \E i \in FailedAt :
       last.calls[i].m = "getVerifiedPlatforms" /\ last.calls[i].id = 1
  /\ Len(last.v.xs) = 1 /\ last.v.xs[1].id = 2


\* getVerificationStrength has returned a score
Scored ==
  /\ last.op = "getVerificationStrength" /\ last.k = "ok" /\ last.v # Null

\* C18: for every Identity and every evaluation time, also one that is not
\* later than createdAt / verifiedAt, the score getVerificationStrength returns
\* is between 0 and 100, in both variants.
C18_ScoreBounds ==
  Scored => (0 <= last.v.score /\ last.v.score <= 100)


\* C19: the grade getVerificationStrength returns is determined by the score it
\* returns: A iff score >= 80, B iff 60 <= score < 80, C iff 40 <= score < 60,
\* D iff 20 <= score < 40, F iff score < 20; and the score is
\* breakdown.totalScore.
C19_GradeOfScore ==
  Scored =>
    /\ last.v.score = last.v.breakdown.totalScore
    /\ last.v.grade \in {"A", "B", "C", "D", "F"}
    /\ (last.v.grade = "A") <=> (last.v.score >= 80)
    /\ (last.v.grade = "B") <=> (60 <= last.v.score /\ last.v.score < 80)
    /\ (last.v.grade = "C") <=> (40 <= last.v.score /\ last.v.score < 60)
    /\ (last.v.grade = "D") <=> (20 <= last.v.score /\ last.v.score < 40)
    /\ (last.v.grade = "F") <=> (last.v.score < 20)

\* a score on a threshold: 60 is graded B
C19_Witness ==
  /\ Scored /\ last.v.score = 60 /\ last.v.grade = "B"


\* the age in days of the owner's passport at the clock of the last operation
OwnerAgeInDays == (last.env.now - OwnerRecord.createdAt) \div SecondsPerDay

\* the number of the sets social, developer, chain the owner's active platforms span
OwnerKinds ==
  Cardinality({k \in {SocialPlatforms, DevPlatforms, ChainPlatforms} :
                 k \cap OwnerRecord.active # {}})

\* C20: in the multi-source variant the score is min(100, platform + age +
\* diversity + points), with platform = min(15 x active platforms, 75), age =
\* min(floor(ageInDays / 30), 10), diversity = 10 iff the active platforms span
\* at least two of the sets social, developer, chain (else 0), and points =
\* min(floor(totalPoints / 100), 5).
C20_ScoreFormula ==
  (Scored /\ variant = "multi") =>
    /\ last.v.activePlatforms = Cardinality(OwnerRecord.active)
    /\ last.v.accountAge = OwnerAgeInDays
    /\ last.v.breakdown.platformCount = Min(15 * Cardinality(OwnerRecord.active), 75)
    /\ last.v.breakdown.ageBonus = Min(OwnerAgeInDays \div 30, 10)
    /\ last.v.breakdown.diversityBonus = (IF OwnerKinds >= 2 THEN 10 ELSE 0)
    /\ last.v.breakdown.pointsBonus = Min(OwnerRecord.totalPoints \div 100, 5)
    /\ last.v.score =
         Min(100, last.v.breakdown.platformCount + last.v.breakdown.ageBonus
                    + last.v.breakdown.diversityBonus + last.v.breakdown.pointsBonus)

\* six active platforms (three social, two developer, one chain), 400 days,
\* 250 points: 75 + 10 + 10 + 2 = 97, grade A
C20_Witness ==
  /\ Scored /\ variant = "multi"
  /\ OwnerRecord.active
       = {"twitter", "discord", "telegram", "github", "gitlab", "solana"}
  /\ OwnerAgeInDays = 400 /\ OwnerRecord.totalPoints = 250
  /\ last.v.breakdown = [platformCount |-> 75, ageBonus |-> 10, diversityBonus |-> 10,
                         pointsBonus |-> 2, totalScore |-> 97]
  /\ last.v.score = 97 /\ last.v.grade = "A"


\* C21: with the rewards source unbound, the points component of the score
\* getVerificationStrength returns is 0, whatever totalPoints the Identity
\* carries; the identity of six active platforms, 400 days and 250 points
\* scores 95, grade A.
C21_UnboundRewardsNoPoints ==
  (Scored /\ variant = "multi" /\ "rewards" \notin contracts) =>
    /\ last.v.breakdown.pointsBonus = 0
    /\ (/\ Cardinality(OwnerRecord.active) = 6 /\ OwnerAgeInDays = 400
        /\ OwnerRecord.totalPoints = 250)
         => (last.v.score = 95 /\ last.v.grade = "A")


\* what the leaderboard answered to the calls of method m of the last operation
LeaderboardAnswered(m) ==
  {SourceAnswer(registry, last.env, last.calls[i]).v : i \in OkCalls("leaderboard", m)}

\* the last operation returned the rank the leaderboard answered to method m,
\* or null when no such call was answered
RankAsAnswered(m) ==
  IF LeaderboardAnswered(m) = {} THEN last.v = Null
  ELSE \A rank \in LeaderboardAnswered(m) :
         /\ last.v = Num(rank)
         /\ (last.v.n = 1) <=> (rank = 1)
         /\ (rank = 0) => (last.v.n = 0 /\ last.v # Null)

\* a formatted entry carries the rank and previous rank of an entry the
\* leaderboard answered to method m
EntryAsAnswered(v, m) ==
  v # Null =>
    \E entry \in LeaderboardAnswered(m) :
      v.rank = entry.rank /\ v.previousRank = entry.previousRank

\* a formatted list carries, position by position, the ranks of the list the
\* leaderboard answered to method m
EntriesAsAnswered(v, m) ==
  v # Null =>
    \E entries \in LeaderboardAnswered(m) :
      /\ Len(v.xs) = Len(entries)
      /\ \A i \in DOMAIN entries :
           v.xs[i].rank = entries[i].rank /\ v.xs[i].previousRank = entries[i].previousRank

\* C22: getGlobalRank, getCategoryRank and the rank / previousRank of every
\* formatted leaderboard entry are the values the leaderboard source answered:
\* a returned rank is 1 only if the source answered 1, a source rank of 0 is
\* returned as 0, and null is returned only when no answer was received.
C22_RankUnchanged ==
  (Queried /\ isConnected /\ last.k = "ok") =>
    /\ last.op = "getGlobalRank" => RankAsAnswered("getPassportRank")
    /\ last.op = "getCategoryRank" => RankAsAnswered("getPassportRankByCategory")
    /\ last.op = "getPassportLeaderboardEntry" => EntryAsAnswered(last.v, "getPassportEntry")
    /\ last.op = "getCategoryLeaderboardEntry"
         => EntryAsAnswered(last.v, "getPassportEntryByCategory")
    /\ last.op = "getTopEntries" => EntriesAsAnswered(last.v, "getTopEntries")
    /\ last.op = "getTopEntriesByCategory"
         => EntriesAsAnswered(last.v, "getTopEntriesByCategory")
    /\ (last.op = "getCompleteLeaderboardData" /\ last.v # Null) =>
         /\ EntryAsAnswered(last.v.global, "getPassportEntry")
         /\ EntryAsAnswered(last.v.categorySpecific, "getPassportEntryByCategory")

\* the leaderboard answered rank 0 for an identifier it does not rank, and
\* getGlobalRank returned 0
C22_Witness ==
  /\ last.op = "getGlobalRank" /\ isConnected /\ last.k = "ok"
  /\ LeaderboardAnswered("getPassportRank") = {0}
  /\ last.v = Num(0)


\* C23: after connect() with a configuration that gives no address for an
\* optional source, the session is connected and has that source unbound.
C23_OmittedSourceUnbound ==
  (variant = "multi" /\ isConnected) =>
    \A src \in OptionalSources : config.given[src] = "" => src \notin contracts


\* C24: the session (isConnected, the bound sources, config) is changed by
\* connect() only: every step that records or discards a query, whether the
\* query succeeded, degraded or failed, leaves it unchanged; isConnected never
\* goes from true back to false, and a connected session has the identity
\* registry bound.
C24_SessionFrame ==
  /\ [](isConnected => "passly" \in contracts)
  /\ [][/\ isConnected => isConnected'
        /\ last' # last => UNCHANGED <<isConnected, contracts, config>>]_vars

\* a query has failed on a connected session, whose sources are still bound
C24_Witness ==
  /\ Queried /\ last.k = "err" /\ FailedAt # {}
  /\ isConnected /\ "passly" \in contracts


\* the scan has returned its results
ScanReturned == last.op = "getUsersByCategory" /\ last.k = "ok"

\* a scan with a finite limit returns, at the first of the two bounds
ScanTerminatesForFiniteLimit ==
  /\ (Scanning /\ last.args.n # Infinity) ~> ScanReturned
  /\ [](ScanReturned =>
         \/ Len(last.v.xs) = last.args.n
         \/ Cardinality(Probes) = MaxAttempts(last.args.n))

\* a returned scan is the scan of getUsersByCategory taken as one step
ScanStepsAgree ==
  (ScanReturned /\ variant = "reduced" /\ last.args.n # Infinity) =>
    \E out \in {getUsersByCategory(registry, last.env, <<>>, last.args.s, last.args.n,
                                    last.args.n2)} :
      out.k = last.k /\ out.v = last.v /\ out.calls = last.calls

\* C25: getUsersByCategory terminates for every input when every remote call
\* returns or fails: a scan that is begun returns; when it returns, limit
\* matches have been appended or limit x 10 probes have been made, and it
\* makes an iteration only while neither is the case.
C25_ScanTerminates ==
  /\ Scanning ~> ~Scanning
  /\ [](ScanReturned =>
         \/ Len(last.v.xs) = last.args.n
         \/ Cardinality(Probes) = MaxAttempts(last.args.n))
  /\ [][(Scanning /\ Scanning') =>
          /\ Len(last.v.results) < last.args.n
          /\ last.v.attempts < MaxAttempts(last.args.n)]_vars


\* C26: getUsersByCategory probes the consecutive identifiers from startId,
\* each once and in ascending order (the k-th probe is of startId + k - 1), and
\* its result lists, in ascending order and without duplicates, exactly the
\* probed identifiers whose base record was answered with the category asked
\* for (letter case ignored) and whose platform list was answered.
C26_ScanOrder ==
  (last.op = "getUsersByCategory" /\ isConnected /\ last.k = "ok") =>
    /\ \A i \in Probes :
         last.calls[i].id = last.args.n2 + Cardinality({j \in Probes : j < i})
    /\ Len(last.v.xs) = Cardinality(ScanMatches)
    /\ \A i \in DOMAIN last.v.xs :
         /\ last.v.xs[i].id \in ScanMatches
         /\ Cardinality({m \in ScanMatches : m < last.v.xs[i].id}) = i - 1

\* a scan for "Creator" from identifier 2, whose first probe failed, probed 2
\* once and went on: passport 1 (below the start) and 2 (not answered) are
\* not in the result
C26_Witness ==
  /\ last.op = "getUsersByCategory" /\ isConnected /\ last.k = "ok"
  /\ last.args.s = "Creator" /\ last.args.n2 = 2 /\ last.args.n = 1
  /\ PassportExists(registry, 1) /\ PassportExists(registry, 2)
  /\ 1 \in FailedAt /\ Cardinality(Probes) = 10
  /\ last.v.xs = <<>>


\* the identities the last operation found by address: the reverse lookup was
\* answered with the identifier of a passport
IdentitiesFound ==
  {registry.passports[registry.passportOf[last.calls[i].s]] :
     i \in {j \in OkCalls("passly", "getPassportByAddress") :
              registry.passportOf[last.calls[j].s] # 0}}

VerificationFetches == {i \in DOMAIN last.calls : last.calls[i].m = "getVerification"}

\* the platform list the registry returned to the last operation
ListReturned(id) == registry.passports[id].platforms

\* the mapping from platforms the last operation returned, as its entries in
\* order; none when it returned no mapping
EntriesReturned ==
  IF last.k # "ok" \/ last.v = Null THEN <<>>
  ELSE IF last.op = "getPassport" THEN last.v.verifications
  ELSE last.v.es

\* the position of platform p in list l
PositionIn(l, p) == CHOOSE i \in DOMAIN l : l[i] = p

\* C28: in getPassport, getVerifications and getAllProofHashes the k-th
\* verification fetch is of the k-th platform of the list the registry
\* returned, and the entries of the resulting mapping are platforms of that
\* list in the list's order: nothing is reordered or sorted.
C28_ListOrderKept ==
  (last.op \in {"getPassport", "getVerifications", "getAllProofHashes"} /\ isConnected) =>
    /\ \A i \in VerificationFetches :
         /\ Cardinality({j \in VerificationFetches : j <= i})
              \in DOMAIN ListReturned(last.calls[i].id)
         /\ last.calls[i].s
              = ListReturned(last.calls[i].id)[Cardinality({j \in VerificationFetches : j <= i})]
    /\ \A i \in VerificationFetches :
         \A a, b \in DOMAIN EntriesReturned :
           a < b =>
             /\ EntriesReturned[a][1] \in Range(ListReturned(last.calls[i].id))
             /\ EntriesReturned[b][1] \in Range(ListReturned(last.calls[i].id))
             /\ PositionIn(ListReturned(last.calls[i].id), EntriesReturned[a][1])
                  < PositionIn(ListReturned(last.calls[i].id), EntriesReturned[b][1])

\* the registry listed github before twitter; getPassport fetched github, then
\* twitter, and its mapping has github first
C28_Witness ==
  /\ last.op = "getPassport" /\ variant = "multi" /\ isConnected /\ last.k = "ok"
  /\ OwnerWithPassport /\ OwnerRecord.platforms = <<"github", "twitter">>
  /\ Cardinality(VerificationFetches) = 2
  /\ ObjKeys(last.v.verifications) = <<"github", "twitter">>


\* C29: in the multi-source SDK getVerificationStrength returns a result, and
\* does not fail, whenever getPassport returns an Identity for the same address
\* under the same behaviour of the registry, also an Identity one of whose
\* platforms has no entry in `verifications` because its fetch failed.
C29_StrengthOfEveryIdentity ==
  (last.op = "getVerificationStrength" /\ variant = "multi" /\ isConnected) =>
    \A passport \in {getPassport(registry, last.env, <<>>, last.args.h)} :
      (IsOk(passport) /\ passport.v # Null) => (last.k = "ok" /\ last.v # Null)


\* the states the passport of "0xA" can be in
SnapshotRegistries ==
  {[passportOf |-> [a \in Addresses |-> IF a = "0xA" THEN 1 ELSE 0],
    passports |-> [i \in Ids |-> IF i = 1 THEN PassportOf("0xA", pl, act) ELSE NoPassport]] :
     <<pl, act>> \in {<<l, a>> \in PlatformLists(Cardinality(Platforms)) \X SUBSET Platforms :
                        a \subseteq Range(l)}}

\* C30: in the reduced variant a result of getVerificationStrength describes
\* one state of the Identity, also when the registry changes while the
\* operation is in flight: it is the score of some single snapshot of the
\* passport, and in particular never has activePlatforms = 0 together with
\* ageBonus > 0.
C30_SingleSnapshot ==
  (Scored /\ variant = "reduced") =>
    /\ ~(last.v.activePlatforms = 0 /\ last.v.breakdown.ageBonus > 0)
    /\ \E reg \in SnapshotRegistries :
         \E out \in {getVerificationStrength_r(reg, [NoEnv EXCEPT !.now = last.env.now],
                                                <<>>, last.args.h)} :
           IsOk(out) /\ out.v = last.v


====
